---- MODULE Spec2Model ----
(***************************************************************************)
(* Model of the TDD step orchestrator (crates/tdd-core/src/orchestrator.rs) *)
(* together with the collaborators it drives: the three role agents, the   *)
(* verification runner and the version-control backend; of the command-line *)
(* driver that constructs it (crates/tdd-cli/src/executor.rs); of the      *)
(* edit-plan parser (crates/tdd-agents/src/edit_plan.rs), the scope rules  *)
(* of the agents (crates/tdd-agents/src), the commit-message formatter     *)
(* (crates/tdd-core/src/commit_policy.rs), the file listing of the step    *)
(* context (crates/tdd-core/src/step.rs) and the status report             *)
(* (crates/tdd-cli/src/status.rs, crates/tdd-core/src/logging.rs).         *)
(*                                                                         *)
(* DefaultOrchestrator::next is modelled statement by statement: every     *)
(* call to a collaborator is one action, the position inside next() is pc, *)
(* and the outcome of every collaborator call (Ok / Err) is an input.      *)
(*                                                                         *)
(* Spec     an orchestrator constructed directly and called at will        *)
(* RunSpec  execute_steps run again and again on one workspace             *)
(* TreeSpec as Spec, with the working tree, the index and HEAD followed    *)
(* UnitSpec detect_plan_progress, normalize_path, EditPlan::parse and      *)
(*          EditPlan::apply, Agent::edit (parse, scope rule, apply),       *)
(*          split_message, CommitPolicy::format and                        *)
(*          StepContextBuilder::build, one input each                      *)
(***************************************************************************)
EXTENDS Integers, Sequences, FiniteSets, TLC

\* ---------------------------------------------------------------- bounds
\* largest configured workspace.max_attempts_per_agent explored (0 included)
MaxConfigured == 2
\* largest starting_step handed to DefaultOrchestrator::new
MaxStart == 2
\* next() is not called any more once step_index exceeds this value
MaxStepIndex == 3
\* number of distinct plan texts an agent may answer with
NumPlanTexts == 2
\* longest agent list handed to DefaultOrchestrator::new
MaxAgents == 4
\* largest number of steps requested from execute_steps
MaxRequested == 2
\* largest number of entries of a plan directory handed to detect_plan_progress
MaxDirLen == 3
\* longest path, in characters, handed to normalize_path on its own
MaxPathLen == 4
\* largest number of file edits in a plan handed to EditPlan::parse
MaxPlanFiles == 3

\* characters of the body of an edit-plan text
MaxBodyLen == 5

\* file edits of an agent's plan: up to MaxMixed seed paths, followed by up to
\* MaxPadding further source files or test files
MaxMixed == 2
MaxPadding == 5

\* characters of a commit message and of the notes, files reported changed
MaxMessageLen == 4
MaxNotesLen == 3
MaxChanged == 2

\* files of the workspace listed for a StepContext
MaxListed == 3

\* ---------------------------------------------------------------- roles
Roles == {"tester", "implementor", "refactorer"}

NoRole == "none"

\* Role::next running through the roles in the opposite direction
Role_next_Backwards(r) ==
    CASE r = "tester" -> "refactorer"
      [] r = "implementor" -> "tester"
      [] r = "refactorer" -> "implementor"

\* Role::next, step.rs
Role_next(r) ==
    CASE r = "tester" -> "implementor"
      [] r = "implementor" -> "refactorer"
      [] r = "refactorer" -> "tester"

\* RoleCycle::advance: self.current = self.current.next(); self.current
\* as the pair of the new field value and the returned role
advance(current) ==
    [current |-> Role_next(current), returned |-> Role_next(current)]

\* from_history without the empty-repository rule
from_history_IgnoresEmpty(last_role, repo_is_empty) ==
    IF last_role # NoRole THEN Role_next(last_role) ELSE "tester"

\* from_history resuming with the last role itself
from_history_SameRole(last_role, repo_is_empty) ==
    IF repo_is_empty
    THEN "tester"
    ELSE IF last_role # NoRole THEN last_role ELSE "tester"

\* RoleCycle::from_history, orchestrator.rs
from_history(last_role, repo_is_empty) ==
    IF repo_is_empty
    THEN "tester"
    ELSE IF last_role # NoRole THEN Role_next(last_role) ELSE "tester"

\* ---------------------------------------------------------------- plan files
\* the characters of the decimal digits 0..9
DigitChar == <<"0", "1", "2", "3", "4", "5", "6", "7", "8", "9">>

RECURSIVE Digits(_)
\* decimal digits of n, most significant first ({step_index} of format!)
Digits(n) == IF n < 10 THEN <<DigitChar[n + 1]>>
             ELSE Append(Digits(n \div 10), DigitChar[(n % 10) + 1])

RECURSIVE PadLeft(_, _)
\* the :03 of {step_index:03}: left-pad with zeros to at least w digits
PadLeft(ds, w) == IF Len(ds) >= w THEN ds ELSE PadLeft(<<"0">> \o ds, w)

\* the file name without the :03 padding
plan_file_name_NoPad(step, r) == <<"step-", Digits(step), "-", r, ".md">>

\* file name built by PlanWriter::write: step-<NNN>-<role>.md
plan_file_name(step, r) == <<"step-", PadLeft(Digits(step), 3), "-", r, ".md">>

PlanTexts == 1..NumPlanTexts

\* ---------------------------------------------------------------- state
VARIABLES
    max_attempts_per_agent, \* config.workspace.max_attempts_per_agent
    cycle,                  \* self.cycle.current
    step_index,             \* self.step_index
    commits,                \* commits in the repository, oldest first
    plan_files,             \* plan directory: file name -> plan text
    pc,                     \* position inside next(); "idle" between calls
    role,                   \* local `role` of next()
    plan,                   \* local `plan` of next()
    max_attempts,           \* local `max_attempts` of next()
    attempt,                \* local `attempt` of next()
    ret,                    \* result of the last next() call
    err,                    \* which phase produced the error of the last call
    trace,                  \* collaborator calls of the current/last call, in order
    pre,                    \* role, step_index, commit count, plan files when the call began
    max_steps,              \* config.workspace.max_steps
    inst,                   \* the last constructor call: its arguments and outcome
    steps_left,             \* iterations left in the loop of execute_steps
    ctx,                    \* local `ctx` of next(): the StepContext
    unit,                   \* input and result of the function under unit check
    worktree,               \* files changed since HEAD, files in the index, files of HEAD
    written,                \* files written since the current/last call of next() began
    log_files               \* log directory: the step log entries in it

vars == <<max_attempts_per_agent, cycle, step_index, commits, plan_files, pc,
          role, plan, max_attempts, attempt, ret, err, trace, pre,
          max_steps, inst, steps_left, ctx, unit, worktree, written,
          log_files>>

config == <<max_attempts_per_agent, max_steps>>
locals == <<role, ctx, plan, max_attempts, attempt>>
tree == <<worktree, written>>

\* u32::max(1)
Max(a, b) == IF a >= b THEN a ELSE b

\* max_attempts_for without the .max(1) floor
max_attempts_for_NoFloor(r) ==
    IF r = "tester" THEN 1 ELSE max_attempts_per_agent

\* DefaultOrchestrator::max_attempts_for
max_attempts_for(r) ==
    IF r = "tester" THEN 1 ELSE Max(max_attempts_per_agent, 1)

\* the ceiling test written with > instead of >=
terminal_OffByOne(r, a, m) == r = "tester" \/ a > m

\* the ceiling test written with > and the Tester clause forgotten
terminal_NoTesterClause(r, a, m) == a > m

\* the ceiling test giving up one attempt too early
terminal_OneTooFew(r, a, m) == r = "tester" \/ a + 1 >= m

\* the condition of the Err arm of next(): is this gate failure terminal?
gate_failure_is_terminal(r, a, m) == r = "tester" \/ a >= m

\* one recorded collaborator call
Ev(op, ok, kind) == [op |-> op, ok |-> ok, kind |-> kind]

\* one recorded call of an agent, with the StepContext it was given
EvCtx(op, ok, kind, c) == [op |-> op, ok |-> ok, kind |-> kind, ctx |-> c]

\* outcomes of Agent::edit: Ok, or an error of the chat call, of
\* EditPlan::parse, of the scope check, or of EditPlan::apply
EditErrors == {"llm", "parse", "scope", "io"}
EditOutcomes == {"ok"} \cup EditErrors

\* a commit that existed before the orchestrator was constructed
OldCommit == [step |-> 0, role |-> NoRole]

\* return from next()
\* files of the workspace an agent may write: one that git tracks or will
\* add, and one below a directory the .gitignore of the workspace names
WorkFiles == {<<"src", "lib.rs">>, <<"target", "gen.rs">>}
Ignored == {<<"target", "gen.rs">>}

\* what one call of Agent::edit has written when it returns: the files of a
\* non-empty plan, the files before the one whose write failed, or nothing
\* when the error came before EditPlan::apply
EditWrites(outcome) ==
    IF outcome = "ok" THEN SUBSET WorkFiles \ {{}}
    ELSE IF outcome = "io" THEN SUBSET WorkFiles
    ELSE {{}}

\* the working tree is followed in TreeSpec only; the other specifications
\* leave it out
NotFollowed == <<>>
CleanTree == [modified |-> {}, index |-> {}, head |-> {}]

\* fs::write of the files W
Wrote(W) ==
    IF worktree = NotFollowed
    THEN UNCHANGED tree
    ELSE /\ worktree' = [worktree EXCEPT !.modified = @ \cup W]
         /\ written' = written \cup W

\* stage_all with the ignore rules bypassed (IndexAddOption::FORCE)
stage_all_Force(w) ==
    IF w = NotFollowed THEN w
    ELSE [w EXCEPT !.index = @ \cup w.modified, !.modified = {}]

\* GitVcs::stage_all: index.add_all(["*"], IndexAddOption::DEFAULT, None)
\* adds every changed file that is not ignored
stage_all(w) ==
    IF w = NotFollowed THEN w
    ELSE [w EXCEPT !.index = @ \cup (w.modified \ Ignored),
                   !.modified = w.modified \cap Ignored]

\* GitVcs::commit: the tree written from the index becomes HEAD
commit(w) == IF w = NotFollowed THEN w ELSE [w EXCEPT !.head = w.index, !.index = {}]

Return(r, e) == /\ pc' = "idle"
                /\ ret' = r
                /\ err' = e

\* ---------------------------------------------------------------- agents
\* variables no step of next() after the context build touches
rest == <<inst, steps_left, unit>>

\* agent lists a caller may hand to DefaultOrchestrator::new
AgentLists == UNION {[1..n -> Roles] : n \in 0..MaxAgents}

\* DefaultOrchestrator::index_agents: the roles that are keys of the map
index_agents(agents) == {agents[i] : i \in DOMAIN agents}

\* ensure_all_roles_present checking only the first two roles
ensure_all_roles_present_TwoRoles(map) ==
    \A r \in {"tester", "implementor"} : r \in map

\* DefaultOrchestrator::ensure_all_roles_present
ensure_all_roles_present(map) ==
    \A r \in {"tester", "implementor", "refactorer"} : r \in map

\* executor.rs build_agents: one agent per role, in this order
build_agents == <<"tester", "implementor", "refactorer">>

\* ---------------------------------------------------------------- plan history
\* a file name of the plan directory is the concatenation of five pieces:
\* <<head, number, separator, role, tail>>, the number being a sequence of
\* characters
\* char::to_digit(10)
DigitValue(c) == CHOOSE d \in 0..9 : DigitChar[d + 1] = c

IsDigit(c) == \E d \in 0..9 : DigitChar[d + 1] = c

\* str::parse::<u32> of a sequence of digits, most significant first, as the
\* pair <<fits, value>>; values above u32::MAX do not fit
RECURSIVE parse_digits(_, _)
parse_digits(ds, acc) ==
    IF ds = <<>> THEN <<TRUE, acc>>
    ELSE IF acc > 429496729 \/ (acc = 429496729 /\ DigitValue(Head(ds)) > 5)
         THEN <<FALSE, 0>>
         ELSE parse_digits(Tail(ds), acc * 10 + DigitValue(Head(ds)))

\* str::parse::<u32>: an optional "+", then at least one digit, only digits
parse_u32(cs) ==
    LET ds == IF cs # <<>> /\ Head(cs) = "+" THEN Tail(cs) ELSE cs IN
    IF ds = <<>> \/ \E i \in DOMAIN ds : ~IsDigit(ds[i])
    THEN <<FALSE, 0>>
    ELSE parse_digits(ds, 0)

\* parse_plan_filename taking any well-formed number, whatever the role part
parse_plan_filename_AnyRole(name) ==
    IF name[1] # "step-" \/ name[5] # ".md" \/ name[3] # "-"
    THEN <<>>
    ELSE IF ~parse_u32(name[2])[1]
         THEN <<>>
         ELSE <<[step |-> parse_u32(name[2])[2],
                 role |-> IF name[4] \in Roles THEN name[4] ELSE "tester"]>>

\* executor.rs parse_plan_filename: <<>> for None, <<[step, role]>> for Some.
\* The name must start with "step-" and end with ".md"; what lies between is
\* split at its first '-': the left part must parse as u32 and the right part
\* must be one of the three role names
parse_plan_filename(name) ==
    IF name[1] # "step-" \/ name[5] # ".md"
    THEN <<>>
    ELSE IF (\E i \in DOMAIN name[2] : name[2][i] = "-") \/ name[3] # "-"
         THEN <<>>
         ELSE IF ~parse_u32(name[2])[1]
              THEN <<>>
              ELSE IF name[4] \notin {"tester", "implementor", "refactorer"}
                   THEN <<>>
                   ELSE <<[step |-> parse_u32(name[2])[2], role |-> name[4]]>>

RECURSIVE detect_scan(_, _, _)
\* the loop of detect_plan_progress over the directory entries, in the order
\* read_dir yields them: a later entry replaces the best one only when its
\* step is strictly larger
detect_scan(entries, max_step, last_role) ==
    IF entries = <<>> THEN <<last_role, max_step>>
    ELSE LET parsed == parse_plan_filename(Head(entries)) IN
         IF parsed # <<>> /\ parsed[1].step > max_step
         THEN detect_scan(Tail(entries), parsed[1].step, parsed[1].role)
         ELSE detect_scan(Tail(entries), max_step, last_role)

\* executor.rs detect_plan_progress: <<last_role, starting_step>>
detect_plan_progress(entries) ==
    LET found == detect_scan(entries, 0, NoRole) IN
    IF found[2] = 0 THEN <<found[1], 1>> ELSE <<found[1], found[2] + 1>>

RECURSIVE DirOrders(_)
\* the orders in which read_dir may yield the files of a directory
DirOrders(files) ==
    IF files = {} THEN {<<>>}
    ELSE UNION {{<<f>> \o order : order \in DirOrders(files \ {f})} : f \in files}

\* u32::saturating_sub
saturating_sub(a, b) == IF a >= b THEN a - b ELSE 0

\* min with the remaining steps left out of account
Min_TakesFirst(a, b) == a

\* u32::min
Min(a, b) == IF a <= b THEN a ELSE b

\* ---------------------------------------------------------------- construction
\* no orchestrator exists: before the first construction, or after one failed
NoInstance(outcome, agents, vcs_ok) ==
    [driver |-> "none", outcome |-> outcome, agents |-> agents,
     vcs_ok |-> vcs_ok, last_role |-> NoRole, empty |-> FALSE, start |-> 0,
     initial |-> NoRole, base |-> 0, requested |-> 0]

\* the orchestrator DefaultOrchestrator::new returns
Instance(driver, agents, last_role, starting_step) ==
    [driver |-> driver, outcome |-> "ok", agents |-> index_agents(agents),
     vcs_ok |-> TRUE, last_role |-> last_role, empty |-> (commits = <<>>),
     start |-> starting_step,
     initial |-> from_history(last_role, commits = <<>>), base |-> Len(commits),
     requested |-> 0]

\* the process starts on a workspace without plan files
ProcessStart ==
    /\ max_attempts_per_agent \in 0..MaxConfigured
    /\ commits \in {<<>>, <<OldCommit>>}
    /\ cycle = "tester"
    /\ step_index = 1
    /\ plan_files = <<>>
    /\ pc = "idle"
    /\ role = NoRole
    /\ plan = 0
    /\ max_attempts = 0
    /\ attempt = 0
    /\ ret = "none"
    /\ err = "none"
    /\ trace = <<>>
    /\ pre = [role |-> NoRole, step |-> step_index, ncommits |-> Len(commits),
              files |-> plan_files]
    /\ inst = NoInstance("none", {}, TRUE)
    /\ steps_left = 0
    /\ ctx = <<>>
    /\ written = {}
    /\ log_files = {}

Init ==
    /\ ProcessStart
    /\ max_steps = MaxStepIndex
    /\ unit = <<>>
    /\ worktree = NotFollowed

\* a process that has not called next() yet: no locals of next(), no record
\* of a call
FreshCallRecord ==
    /\ role' = NoRole
    /\ ctx' = <<>>
    /\ plan' = 0
    /\ max_attempts' = 0
    /\ attempt' = 0
    /\ ret' = "none"
    /\ err' = "none"
    /\ trace' = <<>>
    /\ pre' = [role |-> NoRole, step |-> step_index', ncommits |-> Len(commits),
               files |-> plan_files]

\* DefaultOrchestrator::new called directly (as the unit tests do, first
\* thing on a workspace without plan files), with any agent list, last_role
\* and starting_step
New ==
    /\ pc = "idle"
    /\ inst.outcome = "none"
    /\ plan_files = <<>>
    /\ \E agents \in AgentLists, vcs_ok \in BOOLEAN,
          last_role \in Roles \cup {NoRole}, starting_step \in 1..MaxStart :
          IF vcs_ok /\ ensure_all_roles_present(index_agents(agents))
          THEN /\ cycle' = from_history(last_role, commits = <<>>)
               /\ step_index' = starting_step
               /\ inst' = Instance("direct", agents, last_role, starting_step)
          ELSE /\ inst' = NoInstance("new", index_agents(agents), vcs_ok)
               /\ UNCHANGED <<cycle, step_index>>
    /\ FreshCallRecord
    /\ steps_left' = 0
    /\ UNCHANGED <<config, log_files, commits, plan_files, pc, unit, tree>>

\* what detect_plan_progress may return for a directory holding `files`
PlanProgress(files) == {detect_plan_progress(order) : order \in DirOrders(files)}

\* execute_steps bails out: no orchestrator is built
Bail(outcome, vcs_ok) ==
    /\ inst' = NoInstance(outcome, {}, vcs_ok)
    /\ steps_left' = 0
    /\ cycle' = "tester"
    /\ step_index' = 1

\* ExecuteSteps with a failing baseline test command reported and the run
\* carried on all the same
ExecuteSteps_BaselineIgnored ==
    /\ pc = "idle"
    /\ \E progress \in PlanProgress(DOMAIN plan_files) :
       \E requested \in 0..MaxRequested :
          LET last_role == progress[1]
              starting_step == progress[2]
              completed_steps == saturating_sub(starting_step, 1)
              remaining == saturating_sub(max_steps, completed_steps)
              steps_to_run == Min(requested, remaining)
          IN IF requested = 0
             THEN Bail("requested", TRUE)
             ELSE \/ Bail("setup", TRUE)
                  \/ IF remaining = 0 \/ steps_to_run = 0
                     THEN Bail("max_steps", TRUE)
                     ELSE \E vcs_ok \in BOOLEAN, baseline \in {"ok", "baseline"} :
                                IF vcs_ok /\ ensure_all_roles_present(
                                                 index_agents(build_agents))
                                THEN /\ cycle' = from_history(last_role,
                                                              commits = <<>>)
                                     /\ step_index' = starting_step
                                     /\ inst' = [Instance("execute_steps",
                                                     build_agents, last_role,
                                                     starting_step)
                                                   EXCEPT !.outcome = baseline,
                                                          !.requested = requested]
                                     /\ steps_left' = steps_to_run
                                ELSE Bail("new", vcs_ok)
    /\ FreshCallRecord
    /\ UNCHANGED <<config, log_files, commits, plan_files, pc, unit, tree>>

\* executor.rs execute_steps up to its loop: a process (re)started on the
\* workspace.  Inputs: the requested step count, whether the set-up calls
\* succeed, the order read_dir yields the plan files in, whether the project
\* has tests that fail, whether the repository state is readable
ExecuteSteps ==
    /\ pc = "idle"
    /\ \E progress \in PlanProgress(DOMAIN plan_files) :
       \E requested \in 0..MaxRequested :
          LET last_role == progress[1]
              starting_step == progress[2]
              completed_steps == saturating_sub(starting_step, 1)
              remaining == saturating_sub(max_steps, completed_steps)
              steps_to_run == Min(requested, remaining)
          IN IF requested = 0
             THEN Bail("requested", TRUE)
             ELSE \/ Bail("setup", TRUE)
                  \/ IF remaining = 0 \/ steps_to_run = 0
                     THEN Bail("max_steps", TRUE)
                     ELSE \/ starting_step = 1 /\ Bail("baseline", TRUE)
                          \/ \E vcs_ok \in BOOLEAN :
                                IF vcs_ok /\ ensure_all_roles_present(
                                                 index_agents(build_agents))
                                THEN /\ cycle' = from_history(last_role,
                                                              commits = <<>>)
                                     /\ step_index' = starting_step
                                     /\ inst' = [Instance("execute_steps",
                                                     build_agents, last_role,
                                                     starting_step)
                                                   EXCEPT !.requested = requested]
                                     /\ steps_left' = steps_to_run
                                ELSE Bail("new", vcs_ok)
    /\ FreshCallRecord
    /\ UNCHANGED <<config, log_files, commits, plan_files, pc, unit, tree>>

\* ---------------------------------------------------------------- next()
\* StepContextBuilder::build: role, step index, last commit, file listing
StepContextBuilder_build(r, step) ==
    [role |-> r, step_index |-> step,
     last_commit |-> IF commits = <<>> THEN <<>> ELSE <<commits[Len(commits)]>>,
     plans |-> DOMAIN plan_files]

\* the loop of execute_steps calls next() while iterations are left and no
\* call failed; an orchestrator built directly is called at will
MayCallNext ==
    \/ inst.driver = "direct"
    \/ inst.driver = "execute_steps" /\ steps_left > 0 /\ ret # "err"

\* let role = self.cycle.current(); let ctx = self.build_context(role)?;
\* (the last_role argument of the constructor is remembered up to the first
\* call of next() only: the orchestrator does not keep it)
BuildContext ==
    /\ pc = "idle"
    /\ MayCallNext
    /\ step_index <= MaxStepIndex
    /\ role' = cycle
    /\ pre' = [role |-> cycle, step |-> step_index, ncommits |-> Len(commits),
               files |-> plan_files]
    /\ steps_left' = IF inst.driver = "execute_steps" THEN steps_left - 1
                                                     ELSE steps_left
    /\ attempt' = 0
    /\ max_attempts' = 0
    /\ plan' = 0
    /\ \E ok \in BOOLEAN :
          /\ trace' = <<Ev("build_context", ok, "-")>>
          /\ IF ok
             THEN /\ ctx' = StepContextBuilder_build(cycle, step_index)
                  /\ pc' = "plan" /\ ret' = "none" /\ err' = "none"
             ELSE /\ ctx' = <<>>
                  /\ Return("err", "context")
    /\ inst' = [inst EXCEPT !.last_role = NoRole]
    /\ written' = {}
    /\ UNCHANGED <<config, log_files, cycle, step_index, commits, plan_files, unit, worktree>>

\* AgentPlan with a failed plan call asked again instead of `?`
AgentPlan_RetriesOnError ==
    /\ pc = "plan"
    /\ \/ \E text \in PlanTexts :
             /\ plan' = text
             /\ trace' = Append(trace, EvCtx("plan", TRUE, "-", ctx))
             /\ pc' = "plan_write"
             /\ UNCHANGED <<ret, err>>
       \/ /\ trace' = Append(trace, EvCtx("plan", FALSE, "-", ctx))
          /\ IF Len(trace) >= 2 THEN Return("err", "plan")
                                ELSE pc' = "plan" /\ UNCHANGED <<ret, err>>
          /\ UNCHANGED plan
    /\ UNCHANGED <<config, log_files, cycle, step_index, commits, plan_files,
                   role, ctx, max_attempts, attempt, pre, rest, tree>>

\* let plan = agent.plan(&ctx).await.with_context(..)?;
AgentPlan ==
    /\ pc = "plan"
    /\ \/ \E text \in PlanTexts :
             /\ plan' = text
             /\ trace' = Append(trace, EvCtx("plan", TRUE, "-", ctx))
             /\ pc' = "plan_write"
             /\ UNCHANGED <<ret, err>>
       \/ /\ trace' = Append(trace, EvCtx("plan", FALSE, "-", ctx))
          /\ Return("err", "plan")
          /\ UNCHANGED plan
    /\ UNCHANGED <<config, log_files, cycle, step_index, commits, plan_files,
                   role, ctx, max_attempts, attempt, pre, rest, tree>>

\* PlanWriter::write: fs::write(dir/step-NNN-role.md, body)
PlanWriter_write(files, step, r, content) ==
    LET name == plan_file_name(step, r) IN
    [n \in DOMAIN files \cup {name} |-> IF n = name THEN content ELSE files[n]]

\* PlanWrite with the write of the plan file left out
PlanWrite_Skipped ==
    /\ pc = "plan_write"
    /\ trace' = Append(trace, Ev("plan_write", TRUE, "-"))
    /\ max_attempts' = max_attempts_for(role)
    /\ attempt' = 0
    /\ pc' = "edit"
    /\ UNCHANGED <<ret, err, plan_files>>
    /\ UNCHANGED <<config, log_files, cycle, step_index, commits, role, ctx, plan, pre, rest, tree>>

\* let plan_path = self.plan_writer.write(self.step_index, role, &plan)?;
\* let max_attempts = self.max_attempts_for(role); let mut attempt = 0;
PlanWrite ==
    /\ pc = "plan_write"
    /\ \/ /\ plan_files' = PlanWriter_write(plan_files, step_index, role, plan)
          /\ trace' = Append(trace, Ev("plan_write", TRUE, "-"))
          /\ max_attempts' = max_attempts_for(role)
          /\ attempt' = 0
          /\ pc' = "edit"
          /\ Wrote({plan_file_name(step_index, role)})
          /\ UNCHANGED <<ret, err>>
       \/ /\ trace' = Append(trace, Ev("plan_write", FALSE, "-"))
          /\ Return("err", "plan_write")
          /\ UNCHANGED <<plan_files, max_attempts, attempt, tree>>
    /\ UNCHANGED <<config, log_files, cycle, step_index, commits, role, ctx, plan, pre, rest>>

\* AgentEdit with the files of the earlier attempts of the step restored to
\* HEAD before the agent is asked again
AgentEdit_RevertsFirst ==
    /\ pc = "edit"
    /\ attempt' = attempt + 1
    /\ \E outcome \in EditOutcomes :
          /\ \E W \in EditWrites(outcome) :
                IF worktree = NotFollowed
                THEN UNCHANGED tree
                ELSE /\ worktree' = [worktree EXCEPT
                                        !.modified = (@ \ (written \cap WorkFiles)) \cup W]
                     /\ written' = written \cup W
          /\ trace' = Append(trace, EvCtx("edit", outcome = "ok", outcome, ctx))
          /\ IF outcome = "ok"
             THEN pc' = "fmt" /\ UNCHANGED <<ret, err>>
             ELSE Return("err", "edit")
    /\ UNCHANGED <<config, log_files, cycle, step_index, commits, plan_files,
                   role, ctx, plan, max_attempts, pre, inst, steps_left, unit>>

\* AgentEdit with an edit error handled like a gate failure instead of `?`
AgentEdit_RetriesOnError ==
    /\ pc = "edit"
    /\ attempt' = attempt + 1
    /\ \E outcome \in EditOutcomes :
          /\ \E W \in EditWrites(outcome) : Wrote(W)
          /\ trace' = Append(trace, EvCtx("edit", outcome = "ok", outcome, ctx))
          /\ IF outcome = "ok"
             THEN pc' = "fmt" /\ UNCHANGED <<ret, err>>
             ELSE IF gate_failure_is_terminal(role, attempt + 1, max_attempts)
                  THEN Return("err", "edit")
                  ELSE pc' = "edit" /\ UNCHANGED <<ret, err>>
    /\ UNCHANGED <<config, log_files, cycle, step_index, commits, plan_files,
                   role, ctx, plan, max_attempts, pre, inst, steps_left, unit>>

\* AgentEdit with the StepContext rebuilt for every attempt
AgentEdit_RebuildsContext ==
    /\ pc = "edit"
    /\ attempt' = attempt + 1
    /\ ctx' = StepContextBuilder_build(role, step_index)
    /\ \E outcome \in EditOutcomes :
          /\ \E W \in EditWrites(outcome) : Wrote(W)
          /\ trace' = Append(trace, EvCtx("edit", outcome = "ok", outcome, ctx'))
          /\ IF outcome = "ok"
             THEN pc' = "fmt" /\ UNCHANGED <<ret, err>>
             ELSE Return("err", "edit")
    /\ UNCHANGED <<config, log_files, cycle, step_index, commits, plan_files,
                   role, plan, max_attempts, pre, inst, steps_left, unit>>

\* loop { attempt += 1; let step_result = agent.edit(&ctx).await.with_context(..)?;
AgentEdit ==
    /\ pc = "edit"
    /\ attempt' = attempt + 1
    /\ \E outcome \in EditOutcomes :
          /\ \E W \in EditWrites(outcome) : Wrote(W)
          /\ trace' = Append(trace, EvCtx("edit", outcome = "ok", outcome, ctx))
          /\ IF outcome = "ok"
             THEN pc' = "fmt" /\ UNCHANGED <<ret, err>>
             ELSE Return("err", "edit")
    /\ UNCHANGED <<config, log_files, cycle, step_index, commits, plan_files,
                   role, ctx, plan, max_attempts, pre, inst, steps_left, unit>>

\* Err(err) => { if matches!(role, Role::Tester) || attempt >= max_attempts
\*                 { return Err(err.into()); } }   -- otherwise loop again
GateFailed ==
    IF gate_failure_is_terminal(role, attempt, max_attempts)
    THEN Return("err", "gate")
    ELSE pc' = "edit" /\ UNCHANGED <<ret, err>>

\* run_ci_checks: let fmt = self.runner.fmt()?;
RunFmt ==
    /\ pc = "fmt"
    /\ \E ok \in BOOLEAN :
          /\ trace' = Append(trace, Ev("fmt", ok, "-"))
          /\ IF ok THEN pc' = "check" /\ UNCHANGED <<ret, err>> ELSE GateFailed
    /\ UNCHANGED <<config, log_files, cycle, step_index, commits, plan_files, locals, pre, rest, tree>>

\* RunCheck without the `?`: the test command runs whatever check reported
RunCheck_NoShortCircuit ==
    /\ pc = "check"
    /\ \E ok \in BOOLEAN :
          /\ trace' = Append(trace, Ev("check", ok, "-"))
          /\ pc' = "test"
          /\ UNCHANGED <<ret, err>>
    /\ UNCHANGED <<config, log_files, cycle, step_index, commits, plan_files, locals, pre, rest, tree>>

\* run_ci_checks: let check = self.runner.check()?;
RunCheck ==
    /\ pc = "check"
    /\ \E ok \in BOOLEAN :
          /\ trace' = Append(trace, Ev("check", ok, "-"))
          /\ IF ok THEN pc' = "test" /\ UNCHANGED <<ret, err>> ELSE GateFailed
    /\ UNCHANGED <<config, log_files, cycle, step_index, commits, plan_files, locals, pre, rest, tree>>

\* RunTest with the outcome of the test command ignored
RunTest_IgnoresFailure ==
    /\ pc = "test"
    /\ \E ok \in BOOLEAN :
          /\ trace' = Append(trace, Ev("test", ok, "-"))
          /\ pc' = "stage_all"
          /\ UNCHANGED <<ret, err>>
    /\ UNCHANGED <<config, log_files, cycle, step_index, commits, plan_files, locals, pre, rest, tree>>

\* run_ci_checks: let test = self.runner.test()?; Ok(RunnerOutcomeSummary::new(..))
RunTest ==
    /\ pc = "test"
    /\ \E ok \in BOOLEAN :
          /\ trace' = Append(trace, Ev("test", ok, "-"))
          /\ IF ok THEN pc' = "stage_all" /\ UNCHANGED <<ret, err>> ELSE GateFailed
    /\ UNCHANGED <<config, log_files, cycle, step_index, commits, plan_files, locals, pre, rest, tree>>

\* StageAll with a failure of stage_all handled like a failing gate
StageAll_RetriesOnError ==
    /\ pc = "stage_all"
    /\ \E ok \in BOOLEAN :
          /\ trace' = Append(trace, Ev("stage_all", ok, "-"))
          /\ IF ok THEN pc' = "commit" /\ UNCHANGED <<ret, err>> ELSE GateFailed
          /\ worktree' = IF ok THEN stage_all(worktree) ELSE worktree
    /\ UNCHANGED <<config, log_files, cycle, step_index, commits, plan_files, locals, pre, rest,
                   written>>

\* Ok(ci) => { self.vcs.stage_all().context("failed to stage changes")?;
StageAll ==
    /\ pc = "stage_all"
    /\ \E ok \in BOOLEAN :
          /\ trace' = Append(trace, Ev("stage_all", ok, "-"))
          /\ IF ok THEN pc' = "commit" /\ UNCHANGED <<ret, err>>
                   ELSE Return("err", "stage")
          /\ worktree' = IF ok THEN stage_all(worktree) ELSE worktree
    /\ UNCHANGED <<config, log_files, cycle, step_index, commits, plan_files, locals, pre, rest,
                   written>>

\* Commit with the step counted although the commit failed
Commit_CountsFailedCommit ==
    /\ pc = "commit"
    /\ step_index' = step_index + 1
    /\ \/ /\ trace' = Append(trace, Ev("commit", TRUE, "-"))
          /\ commits' = Append(commits, [step |-> step_index, role |-> role])
          /\ cycle' = advance(cycle).current
          /\ Return("ok", "none")
          /\ worktree' = commit(worktree)
       \/ /\ trace' = Append(trace, Ev("commit", FALSE, "-"))
          /\ Return("err", "commit")
          /\ UNCHANGED <<cycle, commits, worktree>>
    /\ UNCHANGED <<config, log_files, plan_files, locals, pre, rest, written>>

\* Commit with self.cycle.advance() forgotten
Commit_NoAdvance ==
    /\ pc = "commit"
    /\ \/ /\ trace' = Append(trace, Ev("commit", TRUE, "-"))
          /\ commits' = Append(commits, [step |-> step_index, role |-> role])
          /\ step_index' = step_index + 1
          /\ Return("ok", "none")
          /\ worktree' = commit(worktree)
          /\ UNCHANGED cycle
       \/ /\ trace' = Append(trace, Ev("commit", FALSE, "-"))
          /\ Return("err", "commit")
          /\ UNCHANGED worktree
          /\ UNCHANGED <<cycle, step_index, commits>>
    /\ UNCHANGED <<config, log_files, plan_files, locals, pre, rest, written>>

\* Commit with advance() and the increment placed before the commit call
Commit_AdvanceBeforeCommit ==
    /\ pc = "commit"
    /\ cycle' = Role_next(cycle)
    /\ step_index' = step_index + 1
    /\ \/ /\ trace' = Append(trace, Ev("commit", TRUE, "-"))
          /\ commits' = Append(commits, [step |-> step_index, role |-> role])
          /\ Return("ok", "none")
          /\ worktree' = commit(worktree)
       \/ /\ trace' = Append(trace, Ev("commit", FALSE, "-"))
          /\ Return("err", "commit")
          /\ UNCHANGED worktree
          /\ UNCHANGED commits
    /\ UNCHANGED <<config, log_files, plan_files, locals, pre, rest, written>>

\* self.vcs.commit(&commit_message, &self.commit_author).context(..)?;
\* self.cycle.advance(); self.step_index += 1; return Ok(());
Commit ==
    /\ pc = "commit"
    /\ \/ /\ trace' = Append(trace, Ev("commit", TRUE, "-"))
          /\ commits' = Append(commits, [step |-> step_index, role |-> role])
          /\ cycle' = advance(cycle).current
          /\ step_index' = step_index + 1
          /\ Return("ok", "none")
          /\ worktree' = commit(worktree)
       \/ /\ trace' = Append(trace, Ev("commit", FALSE, "-"))
          /\ Return("err", "commit")
          /\ UNCHANGED worktree
          /\ UNCHANGED <<cycle, step_index, commits>>
    /\ UNCHANGED <<config, log_files, plan_files, locals, pre, rest, written>>

\* one step of a call of next()
Step ==
    \/ BuildContext
    \/ AgentPlan
    \/ PlanWrite
    \/ AgentEdit
    \/ RunFmt
    \/ RunCheck
    \/ RunTest
    \/ StageAll
    \/ Commit

\* an orchestrator constructed directly and called at will
Next == New \/ Step

Spec == Init /\ [][Next]_vars

\* the same orchestrator in an empty repository with a clean working tree that
\* is followed, and agents that may try twice
TreeInit ==
    /\ ProcessStart
    /\ max_steps = MaxStepIndex
    /\ unit = <<>>
    /\ worktree = CleanTree
    /\ max_attempts_per_agent = 2
    /\ commits = <<>>

TreeSpec == TreeInit /\ [][Next]_vars

\* the command-line driver: execute_steps, run again and again on one
\* workspace, with one edit attempt per step configured
\* execute_steps with one attempt per agent and a max_steps the step counter
\* of the model can pass
RunInit ==
    /\ ProcessStart
    /\ max_steps \in {MaxStepIndex - 1, MaxStepIndex}
    /\ unit = <<>>
    /\ worktree = NotFollowed
    /\ max_attempts_per_agent = 1

RunNext == ExecuteSteps \/ Step

RunSpec == RunInit /\ [][RunNext]_vars

\* ---------------------------------------------------------------- functions
\* names a plan directory may hold: plan files of steps 1 to 3 (two of them
\* for step 2), a file numbered 0, unpadded and signed numbers, a number above
\* u32::MAX, and names that differ from a plan file name in one piece
SeedNames ==
    { plan_file_name(1, "tester"),
      plan_file_name(2, "implementor"),
      plan_file_name(2, "refactorer"),
      plan_file_name(3, "tester"),
      <<"step-", <<"0", "0", "0">>, "-", "tester", ".md">>,
      <<"step-", <<"7">>, "-", "implementor", ".md">>,
      <<"step-", <<"+", "5">>, "-", "refactorer", ".md">>,
      <<"step-", <<"4", "2", "9", "4", "9", "6", "7", "2", "9", "6">>, "-",
        "tester", ".md">>,
      <<"step-", <<"0", "0", "9">>, "-", "planner", ".md">>,
      <<"step-", <<"0", "0", "9">>, "-", "tester", ".txt">>,
      <<"step-", <<"0", "0", "9">>, "_", "tester", ".md">>,
      <<"step-", <<"0", "x", "9">>, "-", "tester", ".md">>,
      <<"step-", <<>>, "-", "tester", ".md">>,
      <<"plan-", <<"0", "0", "9">>, "-", "tester", ".md">> }

\* directory listings of at most MaxDirLen entries, no name twice
DirListings ==
    UNION {{order \in [1..n -> SeedNames] :
               \A i, j \in 1..n : i # j => order[i] # order[j]} : n \in 0..MaxDirLen}

\* ---------------------------------------------------------------- edit plans
\* a path is a sequence of pieces: the separators "/" and "\\", the dot, the
\* blank, and names (pieces without separator, dot or blank)
\* the white space of the texts modelled: blank, line feed, carriage return
Whitespace == {" ", "\n", "\r"}

RECURSIVE TrimStart(_)
TrimStart(cs) ==
    IF cs # <<>> /\ Head(cs) \in Whitespace THEN TrimStart(Tail(cs)) ELSE cs

RECURSIVE TrimEnd(_)
TrimEnd(cs) ==
    IF cs # <<>> /\ cs[Len(cs)] \in Whitespace
    THEN TrimEnd(SubSeq(cs, 1, Len(cs) - 1)) ELSE cs

\* str::trim
Trim(cs) == TrimEnd(TrimStart(cs))

\* trimmed.replace('\\', "/")
ReplaceBackslashes(cs) == [i \in DOMAIN cs |-> IF cs[i] = "\\" THEN "/" ELSE cs[i]]

RECURSIVE SplitAtSlash(_, _, _)
\* the pieces between the "/" of a path, empty ones included
SplitAtSlash(cs, current, done) ==
    IF cs = <<>> THEN Append(done, current)
    ELSE IF Head(cs) = "/" THEN SplitAtSlash(Tail(cs), <<>>, Append(done, current))
         ELSE SplitAtSlash(Tail(cs), Append(current, Head(cs)), done)

\* Path::is_absolute under Unix path rules: the path has a root
Path_is_absolute(cs) == cs # <<>> /\ cs[1] = "/"

\* Path::components without the root: empty pieces and "." are normalised
\* away, ".." is Component::ParentDir, everything else a normal component
Path_components(cs) ==
    SelectSeq(SplitAtSlash(cs, <<>>, <<>>), LAMBDA c : c # <<>> /\ c # <<".">>)

ParentDir == <<".", ".">>

\* normalize_path without the search for Component::ParentDir
normalize_path_NoParentDirCheck(input) ==
    LET trimmed == Trim(input)
        normalized == ReplaceBackslashes(trimmed)
    IN IF trimmed = <<>>
       THEN [ok |-> FALSE, path |-> input]
       ELSE IF Path_is_absolute(normalized)
            THEN [ok |-> FALSE, path |-> normalized]
            ELSE [ok |-> TRUE, path |-> normalized]

\* edit_plan.rs normalize_path: Ok(normalized) or Err(InvalidPath{path})
normalize_path(input) ==
    LET trimmed == Trim(input)
        normalized == ReplaceBackslashes(trimmed)
        has_escape ==
            \/ Path_is_absolute(normalized)
            \/ \E i \in DOMAIN Path_components(normalized) :
                  Path_components(normalized)[i] = ParentDir
    IN IF trimmed = <<>>
       THEN [ok |-> FALSE, path |-> input]
       ELSE IF has_escape
            THEN [ok |-> FALSE, path |-> normalized]
            ELSE [ok |-> TRUE, path |-> normalized]

RECURSIVE parse_files_AdjacentOnly(_, _, _)
\* the loop of EditPlan::parse with a `seen` that remembers the last path only
parse_files_AdjacentOnly(raw_files, seen, files) ==
    IF raw_files = <<>> THEN [kind |-> "Ok", files |-> files]
    ELSE LET normalized_path == normalize_path(Head(raw_files)) IN
         IF ~normalized_path.ok
         THEN [kind |-> "InvalidPath", files |-> <<normalized_path.path>>]
         ELSE IF normalized_path.path \in seen
              THEN [kind |-> "DuplicatePath", files |-> <<normalized_path.path>>]
              ELSE parse_files_AdjacentOnly(Tail(raw_files), {normalized_path.path},
                                            Append(files, normalized_path.path))

RECURSIVE parse_files(_, _, _)
\* the loop of EditPlan::parse over raw_plan.files
parse_files(raw_files, seen, files) ==
    IF raw_files = <<>> THEN [kind |-> "Ok", files |-> files]
    ELSE LET normalized_path == normalize_path(Head(raw_files)) IN
         IF ~normalized_path.ok
         THEN [kind |-> "InvalidPath", files |-> <<normalized_path.path>>]
         ELSE IF normalized_path.path \in seen
              THEN [kind |-> "DuplicatePath", files |-> <<normalized_path.path>>]
              ELSE parse_files(Tail(raw_files), seen \cup {normalized_path.path},
                               Append(files, normalized_path.path))

\* EditPlan::parse of a raw plan [json_ok, commit_message, files]
EditPlan_parse(raw) ==
    IF ~raw.json_ok THEN [kind |-> "InvalidJson", files |-> <<>>]
    ELSE IF raw.commit_message \in {"absent", "blank"}
         THEN [kind |-> "MissingCommitMessage", files |-> <<>>]
         ELSE IF raw.files = <<>>
              THEN [kind |-> "EmptyFiles", files |-> <<>>]
              ELSE parse_files(raw.files, {}, <<>>)

\* str::starts_with
starts_with(cs, prefix) ==
    Len(cs) >= Len(prefix) /\ SubSeq(cs, 1, Len(prefix)) = prefix

\* str::ends_with
ends_with(cs, suffix) ==
    Len(cs) >= Len(suffix) /\ SubSeq(cs, Len(cs) - Len(suffix) + 1, Len(cs)) = suffix

\* str::contains
contains(cs, pat) ==
    \E i \in 1..(Len(cs) - Len(pat) + 1) : SubSeq(cs, i, i + Len(pat) - 1) = pat

\* a line that ended in a line feed loses one carriage return before it
StripCr(line) ==
    IF line # <<>> /\ line[Len(line)] = "\r" THEN SubSeq(line, 1, Len(line) - 1)
    ELSE line

RECURSIVE SplitLines(_, _, _)
SplitLines(cs, current, done) ==
    IF cs = <<>> THEN (IF current = <<>> THEN done ELSE Append(done, current))
    ELSE IF Head(cs) = "\n"
         THEN SplitLines(Tail(cs), <<>>, Append(done, StripCr(current)))
         ELSE SplitLines(Tail(cs), Append(current, Head(cs)), done)

\* str::lines: the text between line endings (\n or \r\n), without them; an
\* empty last line is not a line
lines(cs) == SplitLines(cs, <<>>, <<>>)

RECURSIVE join(_, _)
\* [&str]::join(sep)
join(ls, sep) ==
    IF ls = <<>> THEN <<>>
    ELSE IF Len(ls) = 1 THEN ls[1]
         ELSE ls[1] \o sep \o join(Tail(ls), sep)

\* the backquote character, and the fence of three of them
Backquote == "backquote"

Fence == <<Backquote, Backquote, Backquote>>

\* sanitize_raw_plan that keeps the closing fence
sanitize_raw_plan_KeepsClosingFence(raw) ==
    LET trimmed == Trim(raw) IN
    IF ~starts_with(trimmed, Fence) THEN trimmed
    ELSE Trim(join(Tail(lines(trimmed)), <<"\n">>))

\* edit_plan.rs sanitize_raw_plan: a text that starts with a fence loses its
\* first line and, when that starts with a fence, its last line
sanitize_raw_plan(raw) ==
    LET trimmed == Trim(raw) IN
    IF ~starts_with(trimmed, Fence) THEN trimmed
    ELSE LET removed == Tail(lines(trimmed))
             popped == IF removed # <<>>
                          /\ starts_with(TrimStart(removed[Len(removed)]), Fence)
                       THEN SubSeq(removed, 1, Len(removed) - 1)
                       ELSE removed
         IN Trim(join(popped, <<"\n">>))

\* the members of the JSON object the piece "P" of a text stands for
Members ==
    [commit_message |-> "feat: x", files |-> << <<"src", "/", "lib", ".", "rs">> >>]

\* serde_json::from_str::<RawEditPlan>: white space between the tokens of a
\* document is insignificant; the one document of the texts modelled is the
\* object { P }
serde_json_from_str(text) ==
    LET tokens == SelectSeq(text, LAMBDA c : c \notin Whitespace) IN
    IF tokens = <<"{", "P", "}">>
    THEN [json_ok |-> TRUE, commit_message |-> Members.commit_message,
          files |-> Members.files]
    ELSE [json_ok |-> FALSE, commit_message |-> "absent", files |-> <<>>]

\* EditPlan::parse of a text
EditPlan_parse_text(text) == EditPlan_parse(serde_json_from_str(sanitize_raw_plan(text)))

\* the workspace root, as path components
RootDir == << <<"ws">> >>

\* Path::join: an absolute argument replaces the base
Path_join(base, path) ==
    IF Path_is_absolute(path) THEN Path_components(path)
    ELSE base \o Path_components(path)

\* EditPlan::apply: the paths handed to fs::write for the first n files
EditPlan_apply(files, n) == {Path_join(RootDir, files[i]) : i \in 1..n}

\* paths tried on normalize_path alone: every sequence of at most MaxPathLen
\* of these pieces
PathPieces == {"/", "\\", ".", " ", "a"}

SmallPaths == UNION {[1..n -> PathPieces] : n \in 0..MaxPathLen}

\* paths the file edits of a plan are drawn from
SeedPaths ==
    { <<"src", "/", "lib", ".", "rs">>,
      <<"src", "\\", "lib", ".", "rs">>,
      <<" ", "tests", "/", "it", ".", "rs">>,
      <<".", "/", "a", "/", "/", "b">>,
      <<"a", "/", "b">>,
      <<".", ".", ".", "/", "a">>,
      <<".", ".", "/", "secret">>,
      <<"a", "\\", ".", ".", "\\", ".", ".", "\\", "b">>,
      <<"/", "etc", "/", "passwd">>,
      <<" ", "\\", "etc">>,
      <<".">>,
      <<" ">> }

RawPlans ==
    [json_ok : BOOLEAN, commit_message : {"absent", "blank", "feat: x"},
     files : UNION {[1..n -> SeedPaths] : n \in 0..MaxPlanFiles}]

\* edit-plan texts: every sequence of at most MaxBodyLen of these characters,
\* between an opening fence (with or without a language tag) on a line of its
\* own and a closing fence (plain, indented, or followed by a line feed)
BodyChars == {"\n", "\r", "{", "P", "}"}

Bodies == UNION {[1..n -> BodyChars] : n \in 0..MaxBodyLen}

OpeningFences == {Fence, Fence \o <<"j">>}

ClosingFences == {Fence, <<" ">> \o Fence, Fence \o <<"\n">>}

FencedTexts == [body : Bodies, opening : OpeningFences, closing : ClosingFences]

\* the body between the two fences, each on a line of its own
Wrapped(t) == t.opening \o <<"\n">> \o t.body \o <<"\n">> \o t.closing

\* ---------------------------------------------------------------- scope
\* support.rs is_test_path
is_test_path(path) ==
    LET normalized == ReplaceBackslashes(path) IN
    \/ starts_with(normalized, <<"t", "e", "s", "t", "s", "/">>)
    \/ contains(normalized, <<"/", "t", "e", "s", "t", "s", "/">>)
    \/ ends_with(normalized, <<"_", "t", "e", "s", "t", ".", "r", "s">>)
    \/ ends_with(normalized, <<"_", "t", "e", "s", "t", "s", ".", "r", "s">>)
    \/ ends_with(normalized, <<"t", "e", "s", "t", ".", "r", "s">>)
    \/ contains(normalized, <<"/", "t", "e", "s", "t", "/">>)

\* support.rs is_source_path
is_source_path(path) ==
    LET normalized == ReplaceBackslashes(path) IN
    \/ starts_with(normalized, <<"s", "r", "c", "/">>)
    \/ starts_with(normalized, <<"e", "x", "a", "m", "p", "l", "e", "s", "/">>)
    \/ normalized = <<"C", "a", "r", "g", "o", ".", "t", "o", "m", "l">>
    \/ ends_with(normalized, <<".", "r", "s">>) /\ ~is_test_path(normalized)

\* the ceiling of the Implementor and the Refactorer: plan.files().len() > 5
MaxFiles == 5

\* the outcome of a scope check: Ok(()) or the rule that failed, with the path
\* the message names (<<>> when it names none)
Allowed == [ok |-> TRUE, rule |-> "none", path |-> <<>>]
Rejected(rule, path) == [ok |-> FALSE, rule |-> rule, path |-> path]

\* the first of the files (in declared order) at the positions S
First(files, S) == files[CHOOSE i \in S : \A j \in S : i <= j]

\* enforce_test_file_scope with a ceiling on the number of files
enforce_test_file_scope_WithCeiling(files) ==
    IF files = <<>> THEN Rejected("empty", <<>>)
    ELSE IF Len(files) > MaxFiles THEN Rejected("too_many", <<>>)
    ELSE IF \E i \in DOMAIN files : ~is_test_path(files[i])
         THEN Rejected("not_test", First(files, {i \in DOMAIN files : ~is_test_path(files[i])}))
         ELSE Allowed

\* tester.rs enforce_test_file_scope
enforce_test_file_scope(files) ==
    IF files = <<>> THEN Rejected("empty", <<>>)
    ELSE IF \E i \in DOMAIN files : ~is_test_path(files[i])
         THEN Rejected("not_test", First(files, {i \in DOMAIN files : ~is_test_path(files[i])}))
         ELSE Allowed

\* enforce_implementor_scope without the ceiling
enforce_implementor_scope_NoCeiling(files) ==
    LET source_files == Cardinality({i \in DOMAIN files : is_source_path(files[i])}) IN
    IF source_files = 0 THEN Rejected("no_source", <<>>) ELSE Allowed

\* implementor.rs enforce_implementor_scope
enforce_implementor_scope(files) ==
    LET source_files == Cardinality({i \in DOMAIN files : is_source_path(files[i])}) IN
    IF source_files = 0 THEN Rejected("no_source", <<>>)
    ELSE IF Len(files) > MaxFiles THEN Rejected("too_many", <<>>)
         ELSE Allowed

\* a file the Refactorer may not touch
OutOfRefactorerScope(f) == is_test_path(f) \/ ~is_source_path(f)

\* enforce_refactorer_scope that looks for test files among the first file only
enforce_refactorer_scope_FirstFileOnly(files) ==
    IF files = <<>> THEN Rejected("empty", <<>>)
    ELSE IF Len(files) > MaxFiles THEN Rejected("too_many", <<>>)
    ELSE IF OutOfRefactorerScope(files[1])
         THEN Rejected(IF is_test_path(files[1]) THEN "test_file" ELSE "not_source",
                       files[1])
         ELSE Allowed

\* refactorer.rs enforce_refactorer_scope
enforce_refactorer_scope(files) ==
    IF files = <<>> THEN Rejected("empty", <<>>)
    ELSE IF Len(files) > MaxFiles THEN Rejected("too_many", <<>>)
    ELSE IF \E i \in DOMAIN files : OutOfRefactorerScope(files[i])
         THEN LET file == First(files, {i \in DOMAIN files : OutOfRefactorerScope(files[i])}) IN
              Rejected(IF is_test_path(file) THEN "test_file" ELSE "not_source", file)
         ELSE Allowed

\* the scope check of the agent of a role
enforce_scope(r, files) ==
    CASE r = "tester" -> enforce_test_file_scope(files)
      [] r = "implementor" -> enforce_implementor_scope(files)
      [] r = "refactorer" -> enforce_refactorer_scope(files)

\* paths of the plans the agents are given: a source file, a test file, a test
\* file under src/, a file that is neither, the manifest, a path out of the
\* workspace, and the source file again with a backslash
ScopePaths ==
    { <<"s", "r", "c", "/", "l", "i", "b", ".", "r", "s">>,
      <<"t", "e", "s", "t", "s", "/", "a", ".", "r", "s">>,
      <<"s", "r", "c", "/", "a", "_", "t", "e", "s", "t", ".", "r", "s">>,
      <<"R", "E", "A", "D", "M", "E", ".", "m", "d">>,
      <<"C", "a", "r", "g", "o", ".", "t", "o", "m", "l">>,
      <<".", ".", "/", "x">>,
      <<"s", "r", "c", "\\", "l", "i", "b", ".", "r", "s">> }

\* n further files: src/m1.rs, src/m2.rs, ... or tests/t1.rs, tests/t2.rs, ...
Padding(kind, n) ==
    [i \in 1..n |->
        IF kind = "source"
        THEN <<"s", "r", "c", "/", "m">> \o <<DigitChar[i + 1]>> \o <<".", "r", "s">>
        ELSE <<"t", "e", "s", "t", "s", "/", "t">> \o <<DigitChar[i + 1]>> \o <<".", "r", "s">>]

PlanFiles ==
    {mixed \o Padding(kind, n) :
        mixed \in UNION {[1..m -> ScopePaths] : m \in 0..MaxMixed},
        kind \in {"source", "test"},
        n \in 0..MaxPadding}

\* what the model answers to the edit prompt: no JSON, JSON without a commit
\* message, or a plan
Responses ==
    {[json_ok |-> FALSE, commit_message |-> "absent", files |-> <<>>],
     [json_ok |-> TRUE, commit_message |-> "blank", files |-> <<<<"s", "r", "c", "/", "l", "i", "b", ".", "r", "s">>>>]}
    \cup {[json_ok |-> TRUE, commit_message |-> "feat: x", files |-> f] : f \in PlanFiles}

\* ---------------------------------------------------------------- commit policy
NL == <<"\n">>

\* commit_policy.rs split_message: the summary and the body (<<>> for None,
\* <<joined>> for Some(joined))
split_message(message) ==
    LET ls == lines(message)
        summary == Trim(IF ls = <<>> THEN <<"chore: update">> ELSE ls[1])
        remaining == IF ls = <<>> THEN <<>> ELSE Tail(ls)
        joined == join(remaining, NL)
    IN [summary |-> summary,
        body |-> IF remaining = <<>> \/ Trim(joined) = <<>> THEN <<>> ELSE <<joined>>]

\* commit_policy.rs extract_kata_goal: the first line that is not blank
extract_kata_goal(description) ==
    LET trimmed == [i \in DOMAIN lines(description) |-> Trim(lines(description)[i])] IN
    IF \A i \in DOMAIN trimmed : trimmed[i] = <<>>
    THEN <<"See kata.md for details">>
    ELSE trimmed[CHOOSE i \in DOMAIN trimmed :
                    trimmed[i] # <<>> /\ \A j \in 1..(i - 1) : trimmed[j] = <<>>]

\* commit_policy.rs format_verification
format_verification(summary) ==
    LET line(label, outcome) ==
            <<"- ", label, ": exit ", outcome.code>>
            \o (IF Trim(outcome.stdout) = <<>> THEN <<>>
                ELSE <<" (">> \o Trim(outcome.stdout) \o <<")">>)
    IN join(<<line("fmt", summary.fmt), line("check", summary.check),
              line("test", summary.test)>>, NL)

\* the Rationale block: a bullet per line of the notes
rationale(notes) ==
    IF Trim(notes) = <<>> THEN <<"- Agent did not provide additional notes.">>
    ELSE join([i \in DOMAIN lines(notes) |-> <<"- ">> \o Trim(lines(notes)[i])], NL)

\* the Diff summary block without the bullet for an empty list
diff_summary_NoPlaceholder(files_changed) ==
    join([i \in DOMAIN files_changed |-> <<"- ", files_changed[i]>>], NL)

\* the Diff summary block: a bullet per changed file
diff_summary(files_changed) ==
    IF files_changed = <<>> THEN <<"- No files reported">>
    ELSE join([i \in DOMAIN files_changed |-> <<"- ", files_changed[i]>>], NL)

\* commit_policy.rs CommitPolicy::format
CommitPolicy_format(input) ==
    LET split == split_message(input.agent_commit_message)
        message == split.summary
                   \o (IF split.body # <<>> /\ Trim(split.body[1]) # <<>>
                       THEN NL \o Trim(split.body[1]) ELSE <<>>)
    IN message \o NL \o NL
       \o <<"Context:">> \o NL
       \o <<"- Role: ", input.role>> \o NL
       \o <<"- Step: ", input.step_index>> \o NL
       \o <<"- Kata goal: ">> \o extract_kata_goal(input.kata_description) \o NL
       \o <<"- Plan: ", input.plan_path>> \o NL \o NL
       \o <<"Rationale:">> \o NL
       \o rationale(input.notes) \o NL \o NL
       \o <<"Diff summary:">> \o NL
       \o diff_summary(input.files_changed) \o NL \o NL
       \o <<"Verification:">> \o NL
       \o format_verification(input.runner_outcomes) \o NL

\* commit messages: every text of at most MaxMessageLen of these characters
Messages == UNION {[1..n -> {"\n", " ", "a", "b"}] : n \in 0..MaxMessageLen}

\* the exit of a verification command that passed, with what it printed
Passed(stdout) == [code |-> "0", stdout |-> stdout]

\* inputs of CommitPolicy::format: a few commit messages, every text of at
\* most MaxNotesLen characters as notes, up to MaxChanged changed files, a
\* kata description with or without a goal, commands that print or do not
CommitMessageInputs ==
    [role : Roles,
     step_index : {"1"},
     kata_description : {<<>>, <<"\n", " ", "k", " ">>},
     agent_commit_message : {<<>>, <<"a">>, <<"a", "\n", "\n", "b", "\n">>,
                             <<"a", " ", "\n", " ", "\n">>, <<"\n", "a", "\n", "b">>},
     notes : UNION {[1..n -> {"\n", " ", "n"}] : n \in 0..MaxNotesLen},
     files_changed : {[i \in 1..n |-> DigitChar[i + 1]] : n \in 0..MaxChanged},
     plan_path : {"plan.md"},
     runner_outcomes : {[fmt |-> Passed(<<>>), check |-> Passed(<<" ">>),
                         test |-> Passed(stdout)] : stdout \in {<<>>, <<"o", "k", "\n">>}}]

\* ---------------------------------------------------------------- status
\* no step log entry
NoLog == <<>>

\* logging.rs latest_log_entry: the entry of the log file with the highest
\* step number, if the directory holds one
latest_log_entry(files) ==
    IF files = {} THEN NoLog
    ELSE CHOOSE e \in files : \A f \in files : f.step <= e.step

\* status.rs build_report: next role and step from the latest log entry
build_report ==
    LET last_log == latest_log_entry(log_files) IN
    [next_role |-> IF last_log = NoLog THEN "tester" ELSE Role_next(last_log.role),
     next_step |-> IF last_log = NoLog THEN 1 ELSE last_log.step + 1,
     max_steps |-> max_steps,
     last_log  |-> last_log]

\* ---------------------------------------------------------------- snapshot
\* the bytes of the characters of the file names modelled
CharCode ==
    ("-" :> 45) @@ ("." :> 46) @@ ("/" :> 47) @@ ("\\" :> 92)
    @@ ("a" :> 97) @@ ("b" :> 98) @@ ("c" :> 99)

RECURSIVE bytes_less(_, _)
\* the order of two names as byte strings (str and OsStr are ordered so)
bytes_less(x, y) ==
    IF y = <<>> THEN FALSE
    ELSE IF x = <<>> THEN TRUE
    ELSE IF Head(x) = Head(y) THEN bytes_less(Tail(x), Tail(y))
    ELSE CharCode[Head(x)] < CharCode[Head(y)]

RECURSIVE Path_less(_, _)
\* the order of PathBuf: component by component, each as a byte string
Path_less(p, q) ==
    IF q = <<>> THEN FALSE
    ELSE IF p = <<>> THEN TRUE
    ELSE IF Head(p) = Head(q) THEN Path_less(Tail(p), Tail(q))
    ELSE bytes_less(Head(p), Head(q))

RECURSIVE sort(_)
\* files.sort() on a Vec<PathBuf> without two equal paths
sort(files) ==
    IF files = <<>> THEN <<>>
    ELSE LET least == CHOOSE i \in DOMAIN files :
                         \A j \in DOMAIN files : j # i => Path_less(files[i], files[j])
         IN <<files[least]>>
            \o sort(SubSeq(files, 1, least - 1) \o SubSeq(files, least + 1, Len(files)))

\* StepContextBuilder::to_repo_path: the path below the root as a string with
\* "/" for every backslash
to_repo_path(path) ==
    IF Len(path) >= Len(RootDir) /\ SubSeq(path, 1, Len(RootDir)) = RootDir
    THEN ReplaceBackslashes(join(SubSeq(path, Len(RootDir) + 1, Len(path)), <<"/">>))
    ELSE join(path, <<"/">>)

\* the repo_snapshot_paths of build with files.sort() left out
repo_snapshot_paths_Unsorted(files) == [i \in DOMAIN files |-> to_repo_path(files[i])]

\* step.rs build, lines 121-126: the listing sorted and made relative
repo_snapshot_paths(files) ==
    LET sorted == sort(files) IN [i \in DOMAIN sorted |-> to_repo_path(sorted[i])]

\* files of a workspace, as the components below the root: a/b, a/c, a-b,
\* a.b, ab, b, and one with a backslash in its name
WorkspaceFiles ==
    { << <<"a">>, <<"b">> >>, << <<"a">>, <<"c">> >>, << <<"a", "-", "b">> >>,
      << <<"a", ".", "b">> >>, << <<"a", "b">> >>, << <<"b">> >>,
      << <<"c", "\\", "a">> >> }

\* what list_workspace_files may return: at most MaxListed of the files, under
\* the root, in the order the walk found them
Listings ==
    UNION {{[i \in 1..n |-> RootDir \o order[i]] :
               order \in {o \in [1..n -> WorkspaceFiles] :
                             \A i, j \in 1..n : i # j => o[i] # o[j]}} :
           n \in 0..MaxListed}

\* a call of function fn that has not returned yet
Call(fn, input) == [fn |-> fn, input |-> input, out |-> <<>>, written |-> {}]

\* a call of Agent::edit of the agent of role r, the model having answered
\* `response`: nothing parsed, checked or written yet
EditCall(r, response) ==
    [fn |-> "edit", input |-> [role |-> r, response |-> response], out |-> <<>>,
     written |-> {}, stage |-> "parse", plan |-> <<>>, changed |-> <<>>,
     writes |-> <<>>]

\* what edit returns: Ok(StepResult{files_changed}) or the error
EditResult(kind, rule, path, changed) ==
    [kind |-> kind, rule |-> rule, path |-> path, changed |-> changed]

\* the calls checked one by one
UnitInit ==
    /\ ProcessStart
    /\ max_steps = MaxStepIndex
    /\ worktree = NotFollowed
    /\ max_attempts_per_agent = 1
    /\ commits = <<>>
    /\ \/ \E d \in DirListings : unit = Call("detect_plan_progress", d)
       \/ \E c \in SmallPaths : unit = Call("normalize_path", c)
       \/ \E r \in RawPlans : unit = Call("parse", r)
       \/ \E t \in FencedTexts : unit = Call("parse_text", t)
       \/ \E r \in Roles, response \in Responses : unit = EditCall(r, response)
       \/ \E m \in Messages : unit = Call("split_message", m)
       \/ \E i \in CommitMessageInputs : unit = Call("format", i)
       \/ \E l \in Listings : unit = Call("build", l)

\* variables the pure functions do not touch
orchestrator == <<config, log_files, cycle, step_index, commits, plan_files, pc, locals,
                  ret, err, trace, pre, inst, steps_left, tree>>

\* let (last_role, starting_step) = detect_plan_progress(&root, &plan_dir)
DetectPlanProgress ==
    /\ unit.fn = "detect_plan_progress"
    /\ unit.out = <<>>
    /\ unit' = [unit EXCEPT !.out = <<detect_plan_progress(unit.input)>>]
    /\ UNCHANGED orchestrator

\* let normalized_path = normalize_path(&file.path)
NormalizePath ==
    /\ unit.fn = "normalize_path"
    /\ unit.out = <<>>
    /\ unit' = [unit EXCEPT !.out = <<normalize_path(unit.input)>>]
    /\ UNCHANGED orchestrator

\* let plan = EditPlan::parse(&response)
ParsePlan ==
    /\ unit.fn = "parse"
    /\ unit.out = <<>>
    /\ unit' = [unit EXCEPT !.out = <<EditPlan_parse(unit.input)>>]
    /\ UNCHANGED orchestrator

\* plan.apply(&self.root): writes the files in order and stops at the first
\* I/O error (n files were written)
ApplyPlan ==
    /\ unit.fn = "parse"
    /\ unit.out # <<>>
    /\ unit.out[1].kind = "Ok"
    /\ \E n \in 0..Len(unit.out[1].files) :
          unit' = [unit EXCEPT !.fn = "apply",
                               !.written = EditPlan_apply(unit.out[1].files, n)]
    /\ UNCHANGED orchestrator

\* EditPlan::parse(raw) of a fenced text, and of its body alone
ParseText ==
    /\ unit.fn = "parse_text"
    /\ unit.out = <<>>
    /\ unit' = [unit EXCEPT !.out = <<[fenced |-> EditPlan_parse_text(Wrapped(unit.input)),
                                       bare |-> EditPlan_parse_text(unit.input.body)]>>]
    /\ UNCHANGED orchestrator

\* let plan = EditPlan::parse(&response)?;
EditParse ==
    /\ unit.fn = "edit"
    /\ unit.stage = "parse"
    /\ LET parsed == EditPlan_parse(unit.input.response) IN
       unit' = IF parsed.kind = "Ok"
               THEN [unit EXCEPT !.plan = parsed.files, !.stage = "scope"]
               ELSE [unit EXCEPT !.stage = "done",
                                 !.out = <<EditResult(parsed.kind, "none",
                                                      parsed.files, <<>>)>>]
    /\ UNCHANGED orchestrator

\* EditScope with the Result of the scope check dropped
EditScope_AppliesAnyway ==
    /\ unit.fn = "edit"
    /\ unit.stage = "scope"
    /\ unit' = [unit EXCEPT !.stage = "apply"]
    /\ UNCHANGED orchestrator

\* enforce_<role>_scope(&plan)?;
EditScope ==
    /\ unit.fn = "edit"
    /\ unit.stage = "scope"
    /\ LET decision == enforce_scope(unit.input.role, unit.plan) IN
       unit' = IF decision.ok
               THEN [unit EXCEPT !.stage = "apply"]
               ELSE [unit EXCEPT !.stage = "done",
                                 !.out = <<EditResult("Scope", decision.rule,
                                                      decision.path, <<>>)>>]
    /\ UNCHANGED orchestrator

\* the state of the call after the write of the next file of the plan
\* succeeded: the file is on disk and its path pushed to `changed`; after the
\* last file apply returns Ok(changed)
Written(u) ==
    LET file == u.plan[Len(u.changed) + 1]
        absolute == Path_join(RootDir, file)
        changed == Append(u.changed, file)
    IN [u EXCEPT !.changed = changed,
                 !.writes = Append(u.writes, absolute),
                 !.written = u.written \cup {absolute},
                 !.stage = IF Len(changed) = Len(u.plan) THEN "done" ELSE "apply",
                 !.out = IF Len(changed) = Len(u.plan)
                         THEN <<EditResult("Ok", "none", <<>>, changed)>>
                         ELSE <<>>]

\* the state of the call after create_dir_all (op = "create_dir_all") or
\* fs::write (op = "write") failed for the next file of the plan
WriteFailed(u, op) ==
    LET absolute == Path_join(RootDir, u.plan[Len(u.changed) + 1])
        parent == SubSeq(absolute, 1, Len(absolute) - 1)
    IN [u EXCEPT !.stage = "done",
                 !.out = <<EditResult("Io", op,
                                      IF op = "write" THEN absolute ELSE parent,
                                      <<>>)>>]

\* EditWrite that goes on with the file after the one that failed
EditWrite_SkipsFailedFile ==
    /\ unit.fn = "edit"
    /\ unit.stage = "apply"
    /\ \/ unit' = Written(unit)
       \/ /\ Len(unit.changed) + 1 < Len(unit.plan)
          /\ unit' = Written([unit EXCEPT
                                 !.plan = SubSeq(unit.plan, 1, Len(unit.changed))
                                          \o SubSeq(unit.plan, Len(unit.changed) + 2,
                                                    Len(unit.plan))])
       \/ \E op \in {"create_dir_all", "write"} : unit' = WriteFailed(unit, op)
    /\ UNCHANGED orchestrator

\* one turn of the loop of plan.apply(&self.root)?: the next file of the plan
\* is written, or the call fails with the I/O error
EditWrite ==
    /\ unit.fn = "edit"
    /\ unit.stage = "apply"
    /\ \/ unit' = Written(unit)
       \/ \E op \in {"create_dir_all", "write"} : unit' = WriteFailed(unit, op)
    /\ UNCHANGED orchestrator

\* let (summary, body) = split_message(input.agent_commit_message)
SplitMessage ==
    /\ unit.fn = "split_message"
    /\ unit.out = <<>>
    /\ unit' = [unit EXCEPT !.out = <<split_message(unit.input)>>]
    /\ UNCHANGED orchestrator

\* let message = self.commit_policy.format(inputs)
FormatCommitMessage ==
    /\ unit.fn = "format"
    /\ unit.out = <<>>
    /\ unit' = [unit EXCEPT !.out = <<CommitPolicy_format(unit.input)>>]
    /\ UNCHANGED orchestrator

\* StepContextBuilder::build on the listing of the workspace
BuildSnapshot ==
    /\ unit.fn = "build"
    /\ unit.out = <<>>
    /\ unit' = [unit EXCEPT !.out = <<repo_snapshot_paths(unit.input)>>]
    /\ UNCHANGED orchestrator

UnitNext ==
    \/ DetectPlanProgress
    \/ NormalizePath
    \/ ParsePlan
    \/ ApplyPlan
    \/ ParseText
    \/ EditParse
    \/ EditScope
    \/ EditWrite
    \/ SplitMessage
    \/ FormatCommitMessage
    \/ BuildSnapshot

UnitSpec == UnitInit /\ [][UnitNext]_vars

\* ---------------------------------------------------------------- helpers
\* positions of the calls of `op` in the trace
Calls(op) == {i \in 1..Len(trace) : trace[i].op = op}
OkCalls(op) == {i \in Calls(op) : trace[i].ok}

\* number of Agent.edit invocations of the current/last call of next()
EditCalls == Cardinality(Calls("edit"))

GateOps == {"fmt", "check", "test"}

\* positions where a verification command reported failure
GateFailures == {i \in 1..Len(trace) : trace[i].op \in GateOps /\ ~trace[i].ok}

\* next() has returned (at least one call was made)
Returned == pc = "idle" /\ ret # "none"

LastEv == trace[Len(trace)]

TypeOK ==
    /\ max_attempts_per_agent \in Nat
    /\ cycle \in Roles
    /\ step_index \in Nat
    /\ pc \in {"idle", "plan", "plan_write", "edit", "fmt", "check", "test",
               "stage_all", "commit"}
    /\ ret \in {"none", "ok", "err"}
    /\ err \in {"none", "context", "plan", "plan_write", "edit", "gate",
                "stage", "commit"}

\* position of the edit call that opened the attempt event i belongs to
AttemptOf(i) == CHOOSE e \in Calls("edit") :
                   e <= i /\ \A f \in Calls("edit") : f <= i => f <= e

\* the events of the trace at position i is the successful call of op
IsOk(i, op) == i >= 1 /\ i <= Len(trace) /\ trace[i].op = op /\ trace[i].ok

\* the last attempt of the call went edit, fmt, check, test, stage_all, commit,
\* all of them successful, after a successful context build, plan and plan write
AllSucceeded ==
    LET n == Len(trace) IN
    /\ n >= 9
    /\ IsOk(1, "build_context") /\ IsOk(2, "plan") /\ IsOk(3, "plan_write")
    /\ IsOk(n - 5, "edit") /\ IsOk(n - 4, "fmt") /\ IsOk(n - 3, "check")
    /\ IsOk(n - 2, "test") /\ IsOk(n - 1, "stage_all") /\ IsOk(n, "commit")

\* the ceiling max(configured, 1) written out
Ceiling == IF max_attempts_per_agent = 0 THEN 1 ELSE max_attempts_per_agent

LoopPcs == {"edit", "fmt", "check", "test", "stage_all", "commit"}

\* ---------------------------------------------------------------- claims

\* C1: when context build, plan, plan write, an edit attempt, fmt, check,
\* test, stage_all and commit all succeed, the call returns success, has
\* created exactly one commit (for the step and role of the call), the current
\* role is the cyclic successor of the role that acted and step_index grew by 1.
C1_SuccessCommitsOnceAndAdvances ==
    (pc = "idle" /\ AllSucceeded) =>
        /\ ret = "ok"
        /\ Cardinality(OkCalls("commit")) = 1
        /\ Len(commits) = pre.ncommits + 1
        /\ commits[Len(commits)] = [step |-> pre.step, role |-> pre.role]
        /\ cycle = Role_next(pre.role)
        /\ cycle # pre.role
        /\ step_index = pre.step + 1

C1_Witness ==
    /\ pc = "idle" /\ AllSucceeded /\ ret = "ok"
    /\ pre.role = "refactorer" /\ cycle = "tester"

\* C2: every commit is preceded, in the same attempt, by fmt, check and test
\* all reporting success (and by a successful stage_all); the repository only
\* grows by the commits the trace shows, and no attempt whose gate failed
\* contains a commit.
C2_CommitOnlyAfterGreenGate ==
    /\ \A j \in Calls("commit") :
          /\ IsOk(j - 1, "stage_all") /\ IsOk(j - 2, "test")
          /\ IsOk(j - 3, "check") /\ IsOk(j - 4, "fmt") /\ IsOk(j - 5, "edit")
    /\ Len(commits) = pre.ncommits + Cardinality(OkCalls("commit"))
    /\ \A j \in Calls("commit"), i \in GateFailures :
          AttemptOf(i) # AttemptOf(j)

C2_Witness ==
    /\ Returned /\ ret = "ok" /\ GateFailures # {}
    /\ Len(commits) = pre.ncommits + 1

\* C3: whenever next() returns an error, whatever phase it came from, no
\* commit was created during the call and role and step_index are unchanged.
C3_ErrorLeavesStateUntouched ==
    (Returned /\ ret = "err") =>
        /\ OkCalls("commit") = {}
        /\ Len(commits) = pre.ncommits
        /\ cycle = pre.role
        /\ step_index = pre.step

C3_Witness ==
    /\ Returned /\ ret = "err" /\ err = "commit"
    /\ attempt = 2 /\ cycle = pre.role /\ step_index = pre.step

\* C4: a call that got past planning invokes Agent.edit at least once and at
\* most max_attempts_for(role) times; when the gate failed in every attempt
\* the call has returned the gate failure after exactly max_attempts_for(role)
\* edit invocations.
C4_BoundedAttempts ==
    /\ pc \in LoopPcs \/ Returned => EditCalls <= max_attempts_for(pre.role)
    /\ pc \in LoopPcs => EditCalls = attempt
    /\ (Returned /\ OkCalls("plan_write") # {}) => EditCalls >= 1
    /\ (Returned /\ EditCalls >= 1
          /\ \A e \in Calls("edit") : \E i \in GateFailures : AttemptOf(i) = e)
        => /\ ret = "err" /\ err = "gate"
           /\ LastEv.op \in GateOps /\ ~LastEv.ok
           /\ EditCalls = max_attempts_for(pre.role)

C4_Witness ==
    /\ Returned /\ ret = "err" /\ err = "gate"
    /\ pre.role = "refactorer" /\ EditCalls = 2 /\ max_attempts_per_agent = 2
    /\ Cardinality(GateFailures) = 2

\* C5: the attempt ceiling is 1 for the Tester whatever is configured, and
\* max(configured, 1) for Implementor and Refactorer, also when 0 is
\* configured; it is the ceiling next() uses in its loop.
C5_MaxAttempts ==
    /\ max_attempts_for("tester") = 1
    /\ max_attempts_for("implementor") = Ceiling
    /\ max_attempts_for("refactorer") = Ceiling
    /\ Ceiling >= 1
    /\ pc \in LoopPcs =>
          max_attempts = IF role = "tester" THEN 1 ELSE Ceiling

C5_Witness ==
    /\ max_attempts_per_agent = 0 /\ role = "implementor"
    /\ pc = "fmt" /\ max_attempts = 1 /\ attempt = 1

\* C6: for the Tester a gate failure ends the call with an error after
\* exactly one Agent.edit invocation, whatever max_attempts_per_agent is.
C6_TesterNeverRetried ==
    role = "tester" =>
        /\ EditCalls <= 1
        /\ GateFailures # {} =>
              /\ Returned /\ ret = "err" /\ err = "gate"
              /\ EditCalls = 1

C6_Witness ==
    /\ role = "tester" /\ max_attempts_per_agent >= 2
    /\ GateFailures # {} /\ Returned /\ ret = "err" /\ EditCalls = 1

\* C7: for Implementor and Refactorer with ceiling m, a gate failure in
\* attempt k < m is followed by another edit, and when the gate failed in the
\* first k attempts and passed in attempt k+1 (stage and commit succeeding)
\* the call returns success after exactly k+1 edit invocations and one commit.
C7_RetryUntilGreen ==
    role \in {"implementor", "refactorer"} =>
        /\ (trace # <<>> /\ LastEv.op \in GateOps /\ ~LastEv.ok
               /\ Cardinality(GateFailures) < Ceiling)
            => pc = "edit" /\ ret = "none"
        /\ (pc = "idle" /\ AllSucceeded /\ Cardinality(GateFailures) < Ceiling)
            => /\ ret = "ok"
               /\ EditCalls = Cardinality(GateFailures) + 1
               /\ Len(commits) = pre.ncommits + 1

C7_Witness ==
    /\ role = "implementor" /\ max_attempts_per_agent = 2
    /\ pc = "idle" /\ AllSucceeded /\ ret = "ok"
    /\ Cardinality(GateFailures) = 1 /\ EditCalls = 2
    /\ Len(commits) = pre.ncommits + 1

C9_AllThreeAlwaysRun ==
    \A i \in 1..Len(trace) :
        /\ trace[i].op = "fmt" =>
              IF i = Len(trace) THEN pc = "check" ELSE trace[i + 1].op = "check"
        /\ trace[i].op = "check" =>
              IF i = Len(trace) THEN pc = "test" ELSE trace[i + 1].op = "test"

\* C9 (amended): in every attempt that reaches the gate the commands run in
\* the order fmt, check, test and stop at the first one that fails: check runs
\* only after a successful fmt, test only after a successful check, and after
\* a failing command nothing but the next edit attempt (or the return) follows;
\* a failure of any one makes the gate fail, so stage_all is reached only
\* after a successful test.
C9_GateStopsAtFirstFailure ==
    \A i \in 1..Len(trace) :
        /\ trace[i].op = "fmt" => IsOk(i - 1, "edit")
        /\ trace[i].op = "check" => IsOk(i - 1, "fmt")
        /\ trace[i].op = "test" => IsOk(i - 1, "check")
        /\ trace[i].op = "stage_all" => IsOk(i - 1, "test")
        /\ IsOk(i, "edit") =>
              IF i = Len(trace) THEN pc = "fmt" ELSE trace[i + 1].op = "fmt"
        /\ IsOk(i, "fmt") =>
              IF i = Len(trace) THEN pc = "check" ELSE trace[i + 1].op = "check"
        /\ IsOk(i, "check") =>
              IF i = Len(trace) THEN pc = "test" ELSE trace[i + 1].op = "test"
        /\ i \in GateFailures =>
              IF i = Len(trace) THEN pc \in {"edit", "idle"}
                                ELSE trace[i + 1].op = "edit"

C9_Witness ==
    /\ trace # <<>> /\ LastEv.op = "fmt" /\ ~LastEv.ok
    /\ pc = "edit" /\ Calls("check") = {} /\ Calls("test") = {}

\* C10: the plan file of (step_index, role) is written before the first
\* Agent.edit invocation, holds the plan of this call during the attempts, and
\* still exists when next() has returned an error from the edit, gate, stage
\* or commit phase.
C10_PlanFileBeforeEdit ==
    /\ \A e \in Calls("edit") : \E w \in OkCalls("plan_write") : w < e
    /\ pc \in LoopPcs =>
          /\ plan_file_name(step_index, role) \in DOMAIN plan_files
          /\ plan_files[plan_file_name(step_index, role)] = plan
    /\ (Returned /\ ret = "err" /\ err \in {"edit", "gate", "stage", "commit"})
        => /\ <<"step-", <<"0", "0", DigitChar[pre.step + 1]>>, "-", pre.role, ".md">>
                 \in DOMAIN plan_files
           /\ plan_files[plan_file_name(pre.step, pre.role)] = plan

C10_Witness ==
    /\ Returned /\ ret = "err" /\ err = "edit" /\ EditCalls = 1
    /\ plan_file_name(pre.step, pre.role) \in DOMAIN plan_files

\* C11: when Agent.plan returns an error the call of next() returns that
\* error at once: plan was invoked once, nothing follows it in the call, no
\* plan file was written, and edit, fmt, check, test, stage_all and commit
\* were not invoked; plan directory and repository are as the call found them.
C11_PlanErrorIsTerminal ==
    \A i \in Calls("plan") : ~trace[i].ok =>
        /\ i = Len(trace)
        /\ Cardinality(Calls("plan")) = 1
        /\ Returned /\ ret = "err" /\ err = "plan"
        /\ \A j \in 1..Len(trace) :
              trace[j].op \notin {"plan_write", "edit", "fmt", "check", "test",
                                  "stage_all", "commit"}
        /\ plan_files = pre.files
        /\ Len(commits) = pre.ncommits

C11_Witness ==
    /\ Returned /\ ret = "err" /\ err = "plan"
    /\ trace # <<>> /\ LastEv.op = "plan" /\ ~LastEv.ok
    /\ pre.files # <<>> /\ plan_files = pre.files

\* C12: within one call of next() the StepContext is built once and
\* Agent.plan is invoked once; every Agent.edit invocation, retries included,
\* receives the StepContext that was built at the start of the call (the one
\* plan received); of the steps of the call only edit and the verification
\* commands are repeated.
C12_OneContextOnePlan ==
    /\ \A op \in {"build_context", "plan", "plan_write"} :
          Cardinality(Calls(op)) <= 1
    /\ trace # <<>> => Calls("build_context") = {1}
    /\ Calls("plan") \subseteq {2}
    /\ \A e \in Calls("edit") :
          /\ IsOk(1, "build_context") /\ IsOk(2, "plan")
          /\ trace[e].ctx = trace[2].ctx
          /\ trace[e].ctx = [role |-> pre.role, step_index |-> pre.step,
                             last_commit |-> IF pre.ncommits = 0 THEN <<>>
                                             ELSE <<commits[pre.ncommits]>>,
                             plans |-> DOMAIN pre.files]

C12_Witness ==
    /\ EditCalls = 2
    /\ \A e \in Calls("edit") : trace[e].ctx = trace[2].ctx
    /\ plan_file_name(pre.step, pre.role) \in DOMAIN plan_files
    /\ plan_file_name(pre.step, pre.role) \notin trace[2].ctx.plans

RECURSIVE RoleAt(_)
\* the role reached by k-1 advances from Tester
RoleAt(k) == IF k <= 1 THEN "tester" ELSE Role_next(RoleAt(k - 1))

\* C13: on a workspace that had zero commits, with an orchestrator started at
\* step 1, the successful calls of next() so far have produced exactly that
\* many commits; the k-th commit is the one of step k, made by the role reached
\* by k-1 advances from Tester, and the plan file of that step is named
\* step-<k padded with zeros to three digits>-<role>.md.
C13_FreshRunFollowsRotation ==
    /\ plan_file_name(12, "tester") = <<"step-", <<"0", "1", "2">>, "-", "tester", ".md">>
    /\ plan_file_name(1234, "tester")
          = <<"step-", <<"1", "2", "3", "4">>, "-", "tester", ".md">>
    /\ (inst.driver = "direct" /\ inst.empty /\ inst.start = 1) =>
          /\ Len(commits) = step_index - 1
          /\ cycle = RoleAt(step_index)
          /\ \A k \in 1..Len(commits) :
                /\ commits[k] = [step |-> k, role |-> RoleAt(k)]
                /\ <<"step-", <<"0", "0", DigitChar[k + 1]>>, "-", RoleAt(k), ".md">>
                      \in DOMAIN plan_files
          /\ \A f \in DOMAIN plan_files :
                \E k \in 1..step_index : f = plan_file_name(k, RoleAt(k))

C13_Witness ==
    /\ inst.driver = "direct" /\ inst.empty /\ inst.start = 1
    /\ pc = "idle" /\ ret = "ok"
    /\ Len(commits) = 3
    /\ commits[3] = [step |-> 3, role |-> "refactorer"]
    /\ cycle = "tester"
    /\ <<"step-", <<"0", "0", "3">>, "-", "refactorer", ".md">> \in DOMAIN plan_files

\* C14: Role::next maps Tester to Implementor, Implementor to Refactorer and
\* Refactorer to Tester; RoleCycle::advance moves the current role along that
\* map and returns the new current role; three advances lead back to the role
\* they started from, and the roles of consecutive commits of one orchestrator
\* follow the map.
C14_RotationIsCyclic ==
    /\ Role_next("tester") = "implementor"
    /\ Role_next("implementor") = "refactorer"
    /\ Role_next("refactorer") = "tester"
    /\ \A r \in Roles :
          /\ advance(r).current = Role_next(r)
          /\ advance(r).returned = advance(r).current
          /\ advance(advance(advance(r).current).current).current = r
          /\ advance(r).current # r
    /\ inst.driver = "direct" =>
          \A k \in 1..(Len(commits) - 1) :
              commits[k] # OldCommit =>
                  commits[k + 1].role = Role_next(commits[k].role)
    /\ (pc = "idle" /\ ret = "ok") => cycle = Role_next(commits[Len(commits)].role)

C14_Witness ==
    /\ pc = "idle" /\ ret = "ok"
    /\ Len(commits) >= 4
    /\ commits[Len(commits) - 2].role = "implementor"
    /\ commits[Len(commits) - 1].role = "refactorer"
    /\ commits[Len(commits)].role = "tester"
    /\ cycle = "implementor"

\* an orchestrator exists and next() has not been called on it yet
Fresh == inst.driver # "none" /\ pc = "idle" /\ trace = <<>>

\* C15: RoleCycle::from_history(last_role, true) starts at Tester for every
\* last_role, None included: an orchestrator constructed on a repository
\* without commits starts with the Tester whatever last_role it was given.
C15_EmptyRepoStartsAtTester ==
    /\ \A last_role \in Roles \cup {NoRole} : from_history(last_role, TRUE) = "tester"
    /\ (Fresh /\ inst.empty) => cycle = "tester"

C15_Witness ==
    /\ Fresh /\ inst.empty /\ commits = <<>>
    /\ inst.last_role = "implementor" /\ cycle = "tester"

\* C16: RoleCycle::from_history(Some(r), false) starts at the successor of r,
\* and from_history(None, false) starts at Tester: an orchestrator constructed
\* on a repository with commits starts accordingly.
C16_ResumeAfterLastRole ==
    /\ from_history("tester", FALSE) = "implementor"
    /\ from_history("implementor", FALSE) = "refactorer"
    /\ from_history("refactorer", FALSE) = "tester"
    /\ from_history(NoRole, FALSE) = "tester"
    /\ (Fresh /\ ~inst.empty) =>
          cycle = IF inst.last_role = NoRole THEN "tester"
                  ELSE Role_next(inst.last_role)

C16_Witness ==
    /\ Fresh /\ ~inst.empty /\ commits # <<>>
    /\ inst.last_role = "tester" /\ cycle = "implementor"

\* C17 (as claimed): whatever runs, failed steps and restarts came before, an
\* orchestrator newly constructed by execute_steps on a workspace whose last
\* commit is the commit of a step resumes with the role that follows the role
\* of that commit; a step that wrote its plan file and then failed does not
\* move the rotation forward.
C17_ResumesAfterLastCommit ==
    (/\ Fresh /\ inst.driver = "execute_steps"
     /\ commits # <<>> /\ commits[Len(commits)] # OldCommit)
        => cycle = Role_next(commits[Len(commits)].role)

\* the state the code reaches instead: the last commit is the Tester's, the
\* plan file of the failed Implementor step is the highest-numbered one, and
\* the new orchestrator starts with the Refactorer at step 3
C17_SkipsFailedRole ==
    /\ Fresh /\ inst.driver = "execute_steps"
    /\ commits # <<>> /\ commits[Len(commits)] = [step |-> 1, role |-> "tester"]
    /\ plan_file_name(2, "implementor") \in DOMAIN plan_files
    /\ inst.last_role = "implementor"
    /\ cycle = "refactorer" /\ step_index = 3

\* a name of the form step-<digits>-<role>.md, <digits> being one or more
\* decimal digits and <role> one of the three role names
MatchesPattern(name) ==
    /\ name[1] = "step-" /\ name[3] = "-" /\ name[5] = ".md"
    /\ name[4] \in Roles
    /\ name[2] # <<>>
    /\ \A i \in DOMAIN name[2] : IsDigit(name[2][i])

\* the number of file f is at least the number of file g (a number too large
\* for u32 counts as larger than every number that fits)
NumberAtLeast(f, g) ==
    LET nf == parse_digits(f[2], 0)
        ng == parse_digits(g[2], 0)
    IN IF nf[1] THEN ng[1] /\ ng[2] <= nf[2] ELSE TRUE

Counted(name) ==
    /\ name[1] = "step-" /\ name[3] = "-" /\ name[5] = ".md"
    /\ name[4] \in Roles
    /\ LET ds == IF name[2] # <<>> /\ name[2][1] = "+" THEN Tail(name[2])
                 ELSE name[2]
       IN /\ ds # <<>>
          /\ \A i \in DOMAIN ds : IsDigit(ds[i])
          /\ parse_digits(ds, 0)[1]

\* the number of a counted name
NumberOf(name) == parse_u32(name[2])[2]

C19_AllRolesRequired ==
    /\ (inst.outcome \in {"new", "ok"} /\ inst.agents # Roles)
          => inst.outcome = "new" /\ inst.driver = "none"
    /\ (inst.outcome \in {"new", "ok"} /\ inst.agents = Roles /\ inst.vcs_ok)
          => inst.outcome = "ok" /\ inst.driver = "direct"
    /\ inst.driver = "direct" => inst.agents = Roles
    /\ inst.driver = "none" => pc = "idle" /\ trace = <<>> /\ ret = "none"

C19_Witness ==
    /\ inst.outcome = "new" /\ inst.driver = "none"
    /\ inst.vcs_ok /\ inst.agents = {"tester", "implementor"}
    /\ pc = "idle" /\ trace = <<>>

\* "/" or "\\"
IsSeparator(c) == c \in {"/", "\\"}

\* the path, blanks around it removed, starts with a separator
StartsAtRoot(cs) == Trim(cs) # <<>> /\ IsSeparator(Trim(cs)[1])

\* the path, blanks around it removed, has a segment ".." between separators
HasDotDotSegment(cs) ==
    LET t == Trim(cs) IN
    \E i \in 1..(Len(t) - 1) :
        /\ t[i] = "." /\ t[i + 1] = "."
        /\ (i = 1 \/ IsSeparator(t[i - 1]))
        /\ (i + 1 = Len(t) \/ IsSeparator(t[i + 2]))

\* absolute, or with a ".." segment
Escaping(cs) == StartsAtRoot(cs) \/ HasDotDotSegment(cs)

\* a clean relative path: not blank and not escaping
CleanRelative(cs) == Trim(cs) # <<>> /\ ~Escaping(cs)

\* the path as EditPlan stores it
Stored(cs) == ReplaceBackslashes(Trim(cs))

\* a written path lies under the root: it starts with the components of the
\* root and has no ".." component
InsideRoot(target) ==
    /\ Len(target) >= Len(RootDir)
    /\ SubSeq(target, 1, Len(RootDir)) = RootDir
    /\ \A i \in DOMAIN target : target[i] # ParentDir

\* the call of EditPlan::parse under check has returned
Parsed == unit # <<>> /\ unit.fn \in {"parse", "apply"} /\ unit.out # <<>>

Normalizes(raw, i) == normalize_path(raw.files[i]).ok

SamePath(raw) ==
    {p \in (DOMAIN raw.files) \X (DOMAIN raw.files) :
        /\ p[1] < p[2]
        /\ Normalizes(raw, p[1]) /\ Normalizes(raw, p[2])
        /\ normalize_path(raw.files[p[1]]).path = normalize_path(raw.files[p[2]]).path}

\* the first entry that repeats the path of an entry before it
FirstRepeat(raw) ==
    CHOOSE j \in {p[2] : p \in SamePath(raw)} :
        \A p \in SamePath(raw) : j <= p[2]

\* no path twice in a list of paths
PairwiseDifferent(files) ==
    \A i, j \in DOMAIN files : i # j => files[i] # files[j]

\* C21 (as claimed): EditPlan::parse fails with DuplicatePath naming the path
\* whenever two file entries have the same normalized path, wherever they sit
\* in the list; no parsed EditPlan holds two edits with equal paths.
C21_DuplicateAlwaysGivesDuplicatePath ==
    Parsed =>
       /\ SamePath(unit.input) # {} =>
             /\ unit.out[1].kind = "DuplicatePath"
             /\ \E p \in SamePath(unit.input) :
                   unit.out[1].files = <<normalize_path(unit.input.files[p[2]]).path>>
       /\ unit.out[1].kind = "Ok" => PairwiseDifferent(unit.out[1].files)

\* C21 (amended): EditPlan::parse never succeeds when two file entries have
\* the same normalized path, wherever they sit in the list, so no parsed
\* EditPlan holds two edits with equal paths.  The error is DuplicatePath,
\* naming the path of the first entry that repeats an earlier one, when the
\* JSON is valid, the commit message is present and every entry before that
\* one normalizes; it is InvalidPath when an entry before it does not.
C21_DuplicatePathNeverParses ==
    Parsed =>
       LET raw == unit.input
           out == unit.out[1]
           wellFormed == raw.json_ok /\ raw.commit_message = "feat: x"
       IN /\ SamePath(raw) # {} =>
                LET j == FirstRepeat(raw) IN
                /\ out.kind # "Ok"
                /\ (wellFormed /\ \A k \in 1..j : Normalizes(raw, k)) =>
                       /\ out.kind = "DuplicatePath"
                       /\ out.files = <<normalize_path(raw.files[j]).path>>
                /\ (wellFormed /\ \E k \in 1..j : ~Normalizes(raw, k)) =>
                       out.kind = "InvalidPath"
          /\ out.kind = "DuplicatePath" => wellFormed /\ SamePath(raw) # {}
          /\ out.kind = "Ok" => PairwiseDifferent(out.files)

\* a plan whose first and third entries are the same file, written with
\* different separators, around a different second entry
C21_Witness ==
    /\ Parsed
    /\ unit.input.json_ok /\ unit.input.commit_message = "feat: x"
    /\ unit.input.files = << <<"src", "/", "lib", ".", "rs">>,
                             <<" ", "tests", "/", "it", ".", "rs">>,
                             <<"src", "\\", "lib", ".", "rs">> >>
    /\ unit.out[1] = [kind |-> "DuplicatePath",
                      files |-> << <<"src", "/", "lib", ".", "rs">> >>]

\* both parses of a fenced text have returned
TextParsed == unit # <<>> /\ unit.fn = "parse_text" /\ unit.out # <<>>

\* C22: for every valid edit-plan text, parsing it wrapped in a fenced code
\* block (opening fence with or without language tag, body, closing fence)
\* yields the same EditPlan as parsing the body alone.
C22_FenceIsStripped ==
    (TextParsed /\ unit.out[1].bare.kind = "Ok") =>
        unit.out[1].fenced = unit.out[1].bare

\* a body of two lines (CR LF between them) under a fence with a language tag
C22_Witness ==
    /\ TextParsed
    /\ unit.input.body = <<"{", "\r", "\n", "P">> \o <<"}">>
    /\ unit.input.opening = Fence \o <<"j">>
    /\ unit.out[1].fenced = [kind |-> "Ok", files |-> Members.files]

\* a call of Agent::edit, in progress or returned
InEdit == unit # <<>> /\ unit.fn = "edit"

\* what EditPlan::parse makes of the response of the call
ParsedPlan == EditPlan_parse(unit.input.response)

\* the scope check of the call has let the plan through / has rejected it
Accepted ==
    InEdit /\ (unit.stage = "apply"
                 \/ (unit.stage = "done" /\ unit.out[1].kind \in {"Ok", "Io"}))

RejectedByScope == InEdit /\ unit.stage = "done" /\ unit.out[1].kind = "Scope"

ScopeChecked == Accepted \/ RejectedByScope

\* C23: in every agent's edit, parsing and the scope check complete before
\* any file is written: no file is written while they are under way, and a
\* call that fails in EditPlan::parse or in the scope check has written none.
C23_ValidationBeforeWrites ==
    InEdit =>
       /\ unit.stage \in {"parse", "scope"} => unit.writes = <<>> /\ unit.written = {}
       /\ (unit.stage = "done" /\ unit.out[1].kind \notin {"Ok", "Io"}) =>
             unit.writes = <<>> /\ unit.written = {}
       /\ (ParsedPlan.kind # "Ok"
             \/ ~enforce_scope(unit.input.role, ParsedPlan.files).ok) =>
             unit.writes = <<>> /\ unit.written = {}

\* the Tester's plan starts with a test file and goes on with a source file:
\* rejected, and the test file was not written either
C23_Witness ==
    /\ RejectedByScope
    /\ unit.input.role = "tester"
    /\ unit.plan = <<<<"t", "e", "s", "t", "s", "/", "a", ".", "r", "s">>, <<"s", "r", "c", "/", "l", "i", "b", ".", "r", "s">>>>
    /\ unit.out[1].path = <<"s", "r", "c", "/", "l", "i", "b", ".", "r", "s">>
    /\ unit.writes = <<>>

\* C24: the Tester scope check accepts a plan if and only if every edited
\* path is a test path, whatever the number of files; the rejection names the
\* first path that is not a test path.
C24_TesterTouchesOnlyTests ==
    (ScopeChecked /\ unit.input.role = "tester") =>
       /\ Accepted <=> \A i \in DOMAIN unit.plan : is_test_path(unit.plan[i])
       /\ RejectedByScope =>
             /\ unit.out[1].rule = "not_test"
             /\ ~is_test_path(unit.out[1].path)
             /\ \E i \in DOMAIN unit.plan :
                   /\ unit.plan[i] = unit.out[1].path
                   /\ \A j \in 1..(i - 1) : is_test_path(unit.plan[j])

\* a plan of more than MaxFiles test files is accepted and applied
C24_Witness ==
    /\ Accepted
    /\ unit.input.role = "tester"
    /\ Len(unit.plan) > MaxFiles
    /\ unit.stage = "done" /\ unit.out[1].kind = "Ok"
    /\ unit.out[1].changed = unit.plan

\* C25: the Implementor scope check rejects every plan of more than 5 files
\* whatever their paths and accepts the plans of up to 5 files with at least
\* one source path; the Refactorer scope check rejects every plan of more than
\* 5 files and accepts the plans of up to 5 files that are all source paths
\* and not test paths.
C25_CeilingOfFiveFiles ==
    /\ (ScopeChecked /\ unit.input.role = "implementor") =>
          /\ Len(unit.plan) > 5 => RejectedByScope
          /\ (Len(unit.plan) <= 5 /\ \E i \in DOMAIN unit.plan : is_source_path(unit.plan[i]))
                => Accepted
    /\ (ScopeChecked /\ unit.input.role = "refactorer") =>
          /\ Len(unit.plan) > 5 => RejectedByScope /\ unit.out[1].rule = "too_many"
          /\ (Len(unit.plan) <= 5
                /\ \A i \in DOMAIN unit.plan :
                      is_source_path(unit.plan[i]) /\ ~is_test_path(unit.plan[i]))
                => Accepted

\* six source files: too many for the Implementor
C25_Witness ==
    /\ RejectedByScope
    /\ unit.input.role = "implementor"
    /\ Len(unit.plan) = 6
    /\ \A i \in DOMAIN unit.plan : is_source_path(unit.plan[i])
    /\ unit.out[1].rule = "too_many"

\* a production-source path as the claim has it: a source path that is not a
\* test path
ProductionSource(f) == is_source_path(f) /\ ~is_test_path(f)

\* C26: the Implementor scope check rejects every plan in which no edited path
\* is a production-source path, a test path never counting as one; so every
\* plan whose paths are all test paths is rejected.
C26_ImplementorNeedsProductionSource ==
    (ScopeChecked /\ unit.input.role = "implementor"
       /\ \A i \in DOMAIN unit.plan : ~ProductionSource(unit.plan[i]))
    => RejectedByScope

\* what the code does: a plan with no path under src/ or examples/, no
\* manifest and no other .rs file that is not a test path is rejected
C26_ImplementorNeedsSourcePath ==
    (ScopeChecked /\ unit.input.role = "implementor"
       /\ \A i \in DOMAIN unit.plan : ~is_source_path(unit.plan[i]))
    => RejectedByScope /\ unit.out[1].rule = "no_source"

\* C27: the Refactorer scope check rejects every plan with a test path, also
\* when the other paths are source paths, and every plan with a path that is
\* not a production-source path.
C27_RefactorerKeepsOffTests ==
    (ScopeChecked /\ unit.input.role = "refactorer") =>
       /\ (\E i \in DOMAIN unit.plan : is_test_path(unit.plan[i])) => RejectedByScope
       /\ (\E i \in DOMAIN unit.plan : ~ProductionSource(unit.plan[i])) => RejectedByScope
       /\ (RejectedByScope /\ unit.out[1].rule = "test_file") =>
             is_test_path(unit.out[1].path)

\* a source file first, a test file second
C27_Witness ==
    /\ RejectedByScope
    /\ unit.input.role = "refactorer"
    /\ unit.plan = <<<<"s", "r", "c", "/", "l", "i", "b", ".", "r", "s">>, <<"t", "e", "s", "t", "s", "/", "a", ".", "r", "s">>>>
    /\ unit.out[1].rule = "test_file"
    /\ unit.out[1].path = <<"t", "e", "s", "t", "s", "/", "a", ".", "r", "s">>

\* the files on disk after edit i of the plan: root joined with each path
Targets(files) == [i \in DOMAIN files |-> Path_join(RootDir, files[i])]

\* C28: EditPlan::apply writes the edits in declared order and returns their
\* paths in that order; when the write of edit i fails it returns the I/O error
\* at once: the edits before i are written, edit i and the edits after it are
\* not, and the error names the file of edit i or its directory.
C28_ApplyInOrderNoRollback ==
    (InEdit /\ ParsedPlan.kind = "Ok") =>
       LET files == ParsedPlan.files
           n == Len(unit.writes)
       IN /\ n <= Len(files)
          /\ unit.writes = SubSeq(Targets(files), 1, n)
          /\ unit.changed = SubSeq(files, 1, n)
          /\ (unit.stage = "done" /\ unit.out[1].kind = "Ok") =>
                n = Len(files) /\ unit.out[1].changed = files
          /\ (unit.stage = "done" /\ unit.out[1].kind = "Io") =>
                /\ n < Len(files)
                /\ \A k \in 1..n : Targets(files)[k] \in unit.written
                /\ \A k \in (n + 2)..Len(files) :
                      Targets(files)[k] \in unit.written
                         => \E j \in 1..n : Targets(files)[j] = Targets(files)[k]
                /\ unit.out[1].path \in
                      {Targets(files)[n + 1],
                       SubSeq(Targets(files)[n + 1], 1, Len(Targets(files)[n + 1]) - 1)}

\* the second of three writes fails
C28_Witness ==
    /\ InEdit /\ unit.stage = "done"
    /\ Len(unit.plan) = 3
    /\ unit.out[1].kind = "Io" /\ unit.out[1].rule = "write"
    /\ unit.writes = <<Path_join(RootDir, unit.plan[1])>>
    /\ unit.out[1].path = Path_join(RootDir, unit.plan[2])

\* the Implementor's plan is one test file under src/: accepted and written
C26_Witness ==
    /\ Accepted
    /\ unit.input.role = "implementor"
    /\ unit.plan = <<<<"s", "r", "c", "/", "a", "_", "t", "e", "s", "t", ".", "r", "s">>>>
    /\ is_test_path(unit.plan[1])
    /\ unit.stage = "done" /\ unit.out[1].kind = "Ok"
    /\ unit.writes = <<Path_join(RootDir, unit.plan[1])>>

\* CommitPolicy::format has returned; the lines of the message it returned
Formatted == unit # <<>> /\ unit.fn = "format" /\ unit.out # <<>>

\* the lines of the text L that are the section header h
HeaderLines(L, h) == {i \in DOMAIN L : L[i] = <<h>>}

\* the lines of L below line `header` up to the next empty line
Bullets(L, header) ==
    LET stop == CHOOSE i \in (header + 1)..(Len(L) + 1) :
                    /\ i = Len(L) + 1 \/ L[i] = <<>>
                    /\ \A j \in (header + 1)..(i - 1) : L[j] # <<>>
    IN SubSeq(L, header + 1, stop - 1)

\* the bullets of section h of the message format returned
Section(h) ==
    LET L == lines(unit.out[1]) IN Bullets(L, CHOOSE i \in HeaderLines(L, h) : TRUE)

NotesPlaceholder == << <<"- Agent did not provide additional notes.">> >>

\* C29: for all inputs CommitPolicy::format emits the summary, then the
\* section headers Context:, Rationale:, Diff summary:, Verification: in that
\* order, each once and after an empty line; the Rationale section is the
\* placeholder bullet when the notes are blank; the Diff summary section is
\* the placeholder bullet when files_changed is empty and one bullet per
\* changed file, in order, otherwise.
C29_SectionsInFixedOrder ==
    Formatted =>
       LET L == lines(unit.out[1])
           context == HeaderLines(L, "Context:")
           rationale_ == HeaderLines(L, "Rationale:")
           diff == HeaderLines(L, "Diff summary:")
           verification == HeaderLines(L, "Verification:")
           notes == IF Cardinality(rationale_) = 1
                    THEN Bullets(L, CHOOSE i \in rationale_ : TRUE) ELSE <<>>
           files == IF Cardinality(diff) = 1
                    THEN Bullets(L, CHOOSE i \in diff : TRUE) ELSE <<>>
       IN /\ L[1] = split_message(unit.input.agent_commit_message).summary
          /\ \A hs \in {context, rationale_, diff, verification} :
                /\ Cardinality(hs) = 1
                /\ \A i \in hs : i > 1 /\ L[i - 1] = <<>>
          /\ \A c \in context : \A r \in rationale_ : \A d \in diff :
                \A v \in verification : c < r /\ r < d /\ d < v
          /\ Trim(unit.input.notes) = <<>> => notes = NotesPlaceholder
          /\ Trim(unit.input.notes) # <<>> =>
                /\ Len(notes) = Len(lines(unit.input.notes))
                /\ \A i \in DOMAIN notes : notes[i][1] = "- "
                /\ notes # NotesPlaceholder
          /\ unit.input.files_changed = <<>> => files = << <<"- No files reported">> >>
          /\ unit.input.files_changed # <<>> =>
                files = [i \in DOMAIN unit.input.files_changed |->
                            <<"- ", unit.input.files_changed[i]>>]

\* blank notes and no changed file, a message with a body: both placeholders
C29_Witness ==
    /\ Formatted
    /\ unit.input.notes = <<" ", "\n">>
    /\ unit.input.files_changed = <<>>
    /\ unit.input.agent_commit_message = <<"a", "\n", "\n", "b", "\n">>
    /\ SubSeq(lines(unit.out[1]), 1, 4) = << <<"a">>, <<"b">>, <<>>, <<"Context:">> >>
    /\ Section("Rationale:") = NotesPlaceholder
    /\ Section("Diff summary:") = << <<"- No files reported">> >>

\* split_message has returned
Split == unit # <<>> /\ unit.fn = "split_message" /\ unit.out # <<>>

\* the lines of the message under split_message that are not blank
NonBlank == {i \in DOMAIN lines(unit.input) : Trim(lines(unit.input)[i]) # <<>>}

\* C30: the summary is the first non-empty line of the agent's commit message,
\* leading blank lines being skipped, and the body is the lines after it,
\* omitted when they are blank.
C30_SummaryIsFirstNonEmptyLine ==
    (Split /\ NonBlank # {}) =>
       LET ls == lines(unit.input)
           first == CHOOSE i \in NonBlank : \A j \in NonBlank : i <= j
           after == SubSeq(ls, first + 1, Len(ls))
       IN /\ unit.out[1].summary = Trim(ls[first])
          /\ unit.out[1].body =
                IF \A i \in DOMAIN after : Trim(after[i]) = <<>> THEN <<>>
                ELSE <<join(after, NL)>>

\* what split_message does: the summary is the first line, trimmed, blank or
\* not (chore: update for the empty message), the body the lines after the
\* first, omitted when they are blank
C30_SummaryIsFirstLine ==
    Split =>
       LET ls == lines(unit.input) IN
       /\ unit.out[1].summary = (IF ls = <<>> THEN <<"chore: update">> ELSE Trim(ls[1]))
       /\ unit.out[1].body =
             IF \A i \in 2..Len(ls) : Trim(ls[i]) = <<>> THEN <<>>
             ELSE <<join(SubSeq(ls, 2, Len(ls)), NL)>>
       /\ (unit.input # <<>> /\ unit.input = Trim(unit.input)) =>
             NonBlank # {} /\ 1 \in NonBlank

\* a message that starts with an empty line: the summary is empty
C30_Witness ==
    /\ Split
    /\ unit.input = <<"\n", "a", "\n", "b">>
    /\ unit.out[1] = [summary |-> <<>>, body |-> << <<"a", "\n", "b">> >>]

\* StepContextBuilder::build has returned
Built == unit # <<>> /\ unit.fn = "build" /\ unit.out # <<>>

\* the relative path of a listed file, written with "/" between components
Relative(path) == join(SubSeq(path, Len(RootDir) + 1, Len(path)), <<"/">>)

\* C31 (as claimed): the repo_snapshot_paths of every StepContext are
\* workspace-relative path strings with forward slashes, in lexicographically
\* sorted order of those strings, for every set of workspace files.
C31_SnapshotSortedAsStrings ==
    Built =>
       LET paths == unit.out[1] IN
       /\ Len(paths) = Len(unit.input)
       /\ \A i \in DOMAIN paths : "\\" \notin {paths[i][k] : k \in DOMAIN paths[i]}
       /\ \A i \in DOMAIN paths : paths[i] # <<>> /\ paths[i][1] # "/"
       /\ \A i \in 1..(Len(paths) - 1) : bytes_less(paths[i], paths[i + 1])

\* C31 (amended): the repo_snapshot_paths are the workspace-relative paths of
\* the listed files, one per file, written with forward slashes, in the order
\* of the paths compared component by component (a directory's files come
\* before a sibling whose name continues the directory's name), whatever order
\* the walk found them in.
C31_SnapshotSortedByComponents ==
    Built =>
       LET paths == unit.out[1] IN
       /\ Len(paths) = Len(unit.input)
       /\ \A i \in DOMAIN paths : "\\" \notin {paths[i][k] : k \in DOMAIN paths[i]}
       /\ \A i \in DOMAIN paths : paths[i] # <<>> /\ paths[i][1] # "/"
       /\ \A f \in DOMAIN unit.input : \E i \in DOMAIN paths :
             paths[i] = ReplaceBackslashes(Relative(unit.input[f]))
       /\ \A i \in 1..(Len(paths) - 1) :
             \E f, g \in DOMAIN unit.input :
                /\ paths[i] = ReplaceBackslashes(Relative(unit.input[f]))
                /\ paths[i + 1] = ReplaceBackslashes(Relative(unit.input[g]))
                /\ Path_less(unit.input[f], unit.input[g])

\* a.b was found first, then a/c, then a/b: the snapshot is a/b, a/c, a.b
C31_Witness ==
    /\ Built
    /\ unit.input = <<RootDir \o << <<"a", ".", "b">> >>,
                      RootDir \o << <<"a">>, <<"c">> >>,
                      RootDir \o << <<"a">>, <<"b">> >> >>
    /\ unit.out[1] = << <<"a", "/", "b">>, <<"a", "/", "c">>, <<"a", ".", "b">> >>

\* the calls of the current next() that are fatal when they fail: a write of
\* EditPlan::apply, stage_all and commit
FatalFailures ==
    {i \in 1..Len(trace) :
        \/ trace[i].op \in {"stage_all", "commit"} /\ ~trace[i].ok
        \/ trace[i].op = "edit" /\ trace[i].kind = "io"}

\* C32: a failure of stage_all or commit after a passing gate, and an I/O
\* failure while applying edits, are fatal for the step: next() returns the
\* error at once, no further call is made, nothing is committed and the
\* orchestrator does not advance, even when attempts remain for the role.
C32_FatalFailuresEndTheStep ==
    \A i \in FatalFailures :
       /\ i = Len(trace)
       /\ Returned /\ ret = "err"
       /\ err = (IF trace[i].op = "edit" THEN "edit"
                 ELSE IF trace[i].op = "stage_all" THEN "stage" ELSE "commit")
       /\ Len(commits) = pre.ncommits
       /\ step_index = pre.step /\ cycle = pre.role

\* stage_all failed after the first green gate of an implementor with
\* attempts left
C32_Witness ==
    /\ Returned /\ ret = "err" /\ err = "stage"
    /\ role = "implementor"
    /\ attempt = 1 /\ attempt < max_attempts
    /\ LastEv.op = "stage_all" /\ ~LastEv.ok

\* files with changes that no commit holds yet: changed on disk or in the index
Uncommitted == worktree.modified \cup worktree.index

\* C33: files written by a failed attempt are never reverted by the
\* orchestrator: everything written since the step began is still changed in
\* the working tree when the next attempt begins and, if the step fails, after
\* next() has returned.
C33_FailedWritesStay ==
    (\/ pc = "edit" /\ attempt >= 1
     \/ Returned /\ ret = "err")
        => written \subseteq Uncommitted

\* the second attempt of an implementor failed the gate too: the files of both
\* attempts and the plan file are on disk, uncommitted
C33_Witness ==
    /\ Returned /\ ret = "err" /\ err = "gate"
    /\ role = "implementor" /\ attempt = 2
    /\ WorkFiles \subseteq written
    /\ plan_file_name(step_index, role) \in written
    /\ written \subseteq worktree.modified

\* C34 (as claimed): plan files form an append-only trace: a plan file that
\* existed when a call of next() began is still there, with the text it had,
\* during and after the call, on the same instance after a failed step too.
C34_PlanFilesNeverOverwritten ==
    \A n \in DOMAIN pre.files :
       n \in DOMAIN plan_files /\ plan_files[n] = pre.files[n]

\* what holds of the code: no call of next() removes a plan file
C34_PlanFilesNeverDeleted == DOMAIN pre.files \subseteq DOMAIN plan_files

\* the step failed once, next() was called again on the same instance, and the
\* plan file of the step now holds the text of the second plan
C34_Witness ==
    /\ inst.driver = "direct"
    /\ step_index = pre.step /\ role = pre.role
    /\ LET n == plan_file_name(step_index, role) IN
       /\ n \in DOMAIN pre.files /\ n \in DOMAIN plan_files
       /\ pre.files[n] # plan_files[n]

\* execute_steps was started on a fresh workspace and every step it was
\* asked for has succeeded
RunSucceeded ==
    /\ inst.driver = "execute_steps" /\ inst.start = 1 /\ inst.empty
    /\ pc = "idle" /\ ret = "ok" /\ steps_left = 0

\* C35 (as claimed): after a run that successfully executes k >= 1 steps on a
\* fresh workspace, gather_status reports next_step = k + 1, next_role = the
\* successor of the role that executed step k, and a last log entry whose role
\* and step index are those of step k.
C35_StatusFollowsTheRun ==
    RunSucceeded =>
       LET k == Len(commits)
           report == build_report
       IN /\ report.next_step = k + 1
          /\ report.next_role = Role_next(commits[k].role)
          /\ report.last_log # NoLog
          /\ report.last_log.step = k /\ report.last_log.role = commits[k].role

\* two steps were run and committed, the orchestrator stands at step 3 with
\* the refactorer, and the report says step 1, tester, no log entry
C35_Witness ==
    /\ RunSucceeded
    /\ Len(commits) = 2 /\ step_index = 3 /\ cycle = "refactorer"
    /\ build_report.next_step = 1
    /\ build_report.next_role = "tester"
    /\ build_report.last_log = NoLog

\* execute_steps found existing tests at step 1 and the baseline test command
\* failed
BaselineFailed == inst.outcome = "baseline"

\* C36: when execute_steps starts at step 1 and the baseline test command
\* fails, the run ends there: no orchestrator is built, so no call of next()
\* and no Agent.plan or Agent.edit call follows, no plan file is written and
\* no commit is created.
C36_BaselineFailureStopsTheRun ==
    BaselineFailed =>
       /\ inst.driver = "none" /\ steps_left = 0 /\ ~MayCallNext
       /\ pc = "idle" /\ ret = "none"
       /\ Calls("plan") = {} /\ Calls("edit") = {} /\ trace = <<>>
       /\ plan_files = pre.files /\ Len(commits) = pre.ncommits

\* an existing repository with a commit, tests that fail and no plan file:
\* the run has ended at the baseline check
C36_Witness ==
    /\ BaselineFailed
    /\ step_index = 1 /\ plan_files = <<>>
    /\ commits = <<OldCommit>>

RECURSIVE Advanced(_, _)
\* the role r after n calls of RoleCycle::advance
Advanced(r, n) == IF n = 0 THEN r ELSE Advanced(Role_next(r), n - 1)

\* commits the orchestrator in use has created
Created == Len(commits) - inst.base

\* a step of one orchestrator (not its construction) that changes the role or
\* the step index is the successful end of next(): one commit more, the next
\* role, the next index
ChangeTogether ==
    (/\ ~(pc = "idle" /\ pc' = "idle")
     /\ cycle' # cycle \/ step_index' # step_index)
        => /\ pc = "commit" /\ pc' = "idle" /\ ret' = "ok"
           /\ Len(commits') = Len(commits) + 1
           /\ step_index' = step_index + 1
           /\ cycle' = Role_next(cycle)

\* C37: in every reachable state of a DefaultOrchestrator, step_index equals
\* starting_step plus the number of commits this instance has created, and the
\* current role is the initial role advanced that many times; role and
\* step_index only ever change together, in the same successful next() call.
C37_StepAndRoleCountCommits ==
    /\ [](inst.outcome = "ok" =>
             /\ Created >= 0
             /\ step_index = inst.start + Created
             /\ cycle = Advanced(inst.initial, Created))
    /\ [][ChangeTogether]_vars

\* built on a repository with a commit after a tester step, starting at step
\* 2: two commits later the instance stands at step 4, back at the tester
C37_Witness ==
    /\ inst.outcome = "ok" /\ inst.start = 2 /\ inst.initial = "implementor"
    /\ Created = 2
    /\ step_index = 4 /\ cycle = "tester"
    /\ Returned /\ ret = "ok"

\* C38 (as claimed): after next() returns success, every file written during
\* that step (by the attempt that passed, by earlier failed attempts, and the
\* plan file) is contained in the step's commit, and no uncommitted change
\* made by the step remains in the working tree.
C38_EveryWrittenFileCommitted ==
    (Returned /\ ret = "ok")
        => /\ written \subseteq worktree.head
           /\ written \cap Uncommitted = {}

\* C38 (amended): after next() returns success, every file written during
\* that step that the ignore rules of the repository do not exclude is
\* contained in the step's commit and nothing is left in the index; the
\* written files that are ignored are in no commit and stay on disk as they
\* were written.
C38_WrittenFilesCommittedUnlessIgnored ==
    (Returned /\ ret = "ok")
        => /\ (written \ Ignored) \subseteq worktree.head
           /\ worktree.index = {}
           /\ worktree.modified \subseteq Ignored
           /\ (written \cap Ignored) \subseteq worktree.modified
           /\ worktree.head \cap Ignored = {}

\* the first attempt failed the gate, the second passed: the commit holds the
\* plan file and src/lib.rs, and target/gen.rs is left outside it
C38_Witness ==
    /\ Returned /\ ret = "ok"
    /\ attempt = 2
    /\ WorkFiles \subseteq written
    /\ worktree.head = {plan_file_name(pre.step, pre.role), <<"src", "lib.rs">>}
    /\ worktree.modified = {<<"target", "gen.rs">>}

\* C39: across any sequence of execute_steps runs with a fixed max_steps, no
\* step with index greater than max_steps is ever started: a run is started
\* only for requested >= 1 and a remainder max_steps - (starting_step - 1)
\* >= 1, it starts at most min(requested, remainder) steps, and a run that
\* failed on requested = 0 or on the remainder runs no step.
C39_NeverPastMaxSteps ==
    /\ inst.driver = "execute_steps" =>
          LET remainder == max_steps - (inst.start - 1)
              limit == IF inst.requested <= remainder THEN inst.requested
                                                      ELSE remainder
          IN /\ inst.requested >= 1 /\ remainder >= 1
             /\ steps_left >= 0
             /\ step_index - inst.start <= limit
             /\ trace # <<>> => /\ pre.step <= max_steps
                                /\ pre.step < inst.start + limit
             /\ pc # "idle" => step_index <= max_steps
    /\ inst.outcome \in {"requested", "max_steps"} =>
          inst.driver = "none" /\ ~MayCallNext /\ trace = <<>> /\ pc = "idle"

\* a run asked for two steps at step 2 with max_steps = 2: it ran step 2 and
\* stopped
C39_Witness ==
    /\ inst.driver = "execute_steps" /\ inst.requested = 2 /\ inst.start = 2
    /\ max_steps = 2
    /\ Returned /\ ret = "ok" /\ steps_left = 0
    /\ step_index = 3

\* EditPlan::parse has accepted the plan
PlanParsed == unit # <<>> /\ unit.fn = "parse" /\ unit.out # <<>> /\ unit.out[1].kind = "Ok"

\* C40 (as claimed): in every successfully parsed EditPlan no two edits
\* resolve to the same file under the workspace root, spellings such as
\* ./a//b and a/b included, so apply never writes the same file twice.
C40_NoTwoEditsOfOneFile ==
    PlanParsed =>
       LET files == unit.out[1].files IN
       \A i, j \in DOMAIN files :
          i # j => Path_join(RootDir, files[i]) # Path_join(RootDir, files[j])

\* what holds of the code: the paths of a parsed plan differ as strings
C40_NoTwoEqualSpellings ==
    PlanParsed =>
       LET files == unit.out[1].files IN
       \A i, j \in DOMAIN files : i # j => files[i] # files[j]

\* the plan [./a//b, a/b] was parsed: apply writes the one file ws/a/b twice
C40_Witness ==
    /\ PlanParsed
    /\ unit.out[1].files = << <<".", "/", "a", "/", "/", "b">>, <<"a", "/", "b">> >>
    /\ EditPlan_apply(unit.out[1].files, 2) = {<< <<"ws">>, <<"a">>, <<"b">> >>}

====
